---- MODULE Spec2Model ----
(***************************************************************************)
(* Model of the eGet crawler core:                                         *)
(*   - BrowserPool / WebScraper        (src/services/scraper/scraper.py)   *)
(*   - QueueManager                    (src/services/crawler/queue_manager.py) *)
(*   - LinkExtractor                   (src/services/crawler/link_extractor.py) *)
(*   - CrawlerService                  (src/services/crawler/crawler_service.py) *)
(*   - CacheService                    (src/services/cache/cache_service.py) *)
(* The specifications share the variables:                                 *)
(*   SpecPool      concurrent scrape calls and cleanup over one BrowserPool *)
(*   FairSpecPool  SpecPool under a fair event loop                        *)
(*   SpecQM        the QueueManager API driven with arbitrary arguments    *)
(*   Spec          one CrawlerService.crawl_sync call with its page tasks  *)
(*   FairSpec      Spec under a fair event loop                            *)
(*   SpecCache     scrape calls on a WebScraper that has a CacheService    *)
(*   SpecKey       CacheService._generate_cache_key on pairs of requests   *)
(*   SpecLinks     LinkExtractor.extract_links on one document             *)
(*   SpecNav       BrowserContext.navigate with the bot-protection wait    *)
(*   SpecCancel    Spec with a cancellation of the crawl coroutine         *)
(*   SpecMeta      the language fields of WebScraper._process_page_data    *)
(*   SpecWait      BrowserContext.wait_for_challenge_completion            *)
(*   SpecTtl       SpecCache with requests that differ in cache_ttl        *)
(*   SpecSite      Spec on a fixed site of seven pages                     *)
(*   SpecSeed      Spec with patterns that may reject the seed             *)
(*   SpecBg        CrawlerService.start_crawl and the task it creates      *)
(*   FairSpecBg    SpecBg under a fair event loop                          *)
(***************************************************************************)
EXTENDS Integers, Sequences, FiniteSets, TLC

(***************************************************************************)
(* Bounds                                                                  *)
(***************************************************************************)
\* BrowserPool(max_browsers=...) / WebScraper(max_concurrent=...): pool size
max_browsers == 2
\* number of WebScraper.scrape calls, each made by its own coroutine
NumCallers == 3

\* largest request.max_depth tried (Field ge=1, le=10)
MaxDepthBound == 2
\* largest request.max_pages tried (Field ge=1, le=1000)
MaxPagesBound == 3
\* number of distinct paths on each host
NumPaths == 3
\* largest number of <a href> elements on one page
MaxLinks == 2
\* scrape calls that reach BrowserContext.navigate, one after another
MaxNavs == 2
\* passes of the polling loop of wait_for_challenge_completion that fit in
\* the timeout
MaxPolls == 2
\* passes of the loop of one wait_for_challenge_completion call that fit in
\* its timeout (each pass sleeps 2 to 5 seconds)
MaxWaitPolls == 7
\* concurrent callers of scrape on the scraper that has a cache
NumScrapers == 2
\* scrape calls made on it in all
MaxCalls == 3

\* CrawlerService(max_concurrent=3, worker_threads=2)
worker_threads == 2

Callers == 1..NumCallers
\* webdriver.Chrome handles: a scrape call creates at most one
Handles == 1..NumCallers
\* lock owner id of the coroutine running BrowserPool.cleanup
CleanupId == NumCallers + 1
NoHandle == 0
Free == 0

VARIABLES
    \* ---- BrowserPool ----
    available_browsers,   \* List[webdriver.Chrome]
    active_browsers,      \* Set[webdriver.Chrome]
    lock,                 \* asyncio.Lock of the pool: Free or the holder
    bstate,               \* per handle: "new" (not created), "ok", "sick", "quit"
    \* ---- WebScraper.scrape calls ----
    semaphore,            \* permits left in WebScraper.semaphore
    spc,                  \* per call: position inside scrape
    cur,                  \* per call: browser handle it works on
    result,               \* per call: outcome
    \* ---- BrowserPool.cleanup call ----
    cpc,                  \* position inside cleanup
    csnap                 \* all_browsers snapshot taken by cleanup

poolVars == <<available_browsers, active_browsers, lock, bstate, semaphore,
              spc, cur, result, cpc, csnap>>

VARIABLES
    \* ---- CrawlerRequest ----
    max_depth,            \* request.max_depth, copied by QueueManager
    max_pages,            \* request.max_pages, copied by QueueManager
    exclude_patterns,     \* sequence of patterns; a pattern is the set of
    include_patterns,     \*   paths whose URL it matches (pattern.search)
    respect_robots,       \* request.respect_robots_txt
    \* ---- QueueManager ----
    queue,                \* asyncio.Queue, oldest first
    seen_urls,            \* Set[str]
    in_progress,          \* Set[str]
    url_depths,           \* Dict[str, int]
    last,                 \* the last QueueManager call and what it returned
    completed,            \* URLs that mark_complete took out of in_progress
    tried,                \* URLs that add_url has been called with
    admit_count,          \* per URL: times add_url queued it
    dequeue_count         \* per URL: times get_next_url returned it

qmVars == <<max_depth, max_pages, queue, seen_urls, in_progress, url_depths,
            last, completed, tried, admit_count, dequeue_count>>

VARIABLES
    \* ---- CrawlerService.crawl_sync ----
    dpc,                  \* position of the driver loop
    clock,                \* CrawlerService._lock: Free or the holding task
    pages,                \* response.pages
    stats,                \* response.stats counters
    status,               \* response.status
    \* ---- page tasks of the current batch, by position in "tasks" ----
    tpc,                  \* position inside _process_page
    turl,                 \* url argument
    tdepth,               \* depth argument
    tlinks,               \* new_links not yet passed to add_url
    scrape_count,         \* per URL: times it was handed to scraper.scrape
    offsite_offered       \* some scraped page linked to another host

crawlVars == <<exclude_patterns, include_patterns, respect_robots, dpc, clock,
               pages, stats, status, tpc, turl, tdepth, tlinks, scrape_count,
               offsite_offered>>

VARIABLES
    \* ---- WebScraper with a CacheService ----
    cache_service,        \* WebScraper.cache_service is not None
    redis,                \* CacheService.redis: "None" or "client"
    store,                \* the Redis keyspace: the entry under each key
    SCRAPE_REQUESTS,      \* counter scraper_requests_total
    calls_ended,          \* scrape calls that returned or raised
    kpc,                  \* per call: position inside scrape
    req,                  \* per call: the arguments (url, options)
    page,                 \* per call: processed_data, once computed
    redis_up,             \* the Redis server is reachable and answers
    ret                   \* what the last scrape to end returned or raised

cacheVars == <<cache_service, redis, store, SCRAPE_REQUESTS,
               calls_ended, kpc, req, page, redis_up, ret>>

VARIABLES
    \* ---- CacheService._generate_cache_key on two requests ----
    reqA, reqB,           \* the two (url, options)
    keyA, keyB            \* their keys, once computed

keyVars == <<reqA, reqB, keyA, keyB>>

VARIABLES
    \* ---- LinkExtractor.extract_links, one call ----
    lpc,                  \* "idle", "call" (made) or "returned"
    links_html,           \* the html argument: the hrefs of its <a> elements
    valid_links           \* the set returned

linkVars == <<lpc, links_html, valid_links>>

VARIABLES
    \* ---- BrowserContext.navigate inside scrape, one call after another ----
    npc,                  \* position inside navigate
    navs,                 \* navigations started
    timeout,              \* the timeout argument of navigate
    page_load_timeout,    \* what set_page_load_timeout was last given
    loads,                \* browser.get(url) calls of this navigation
    first_load,           \* how the first browser.get ended
    polls,                \* passes of the loop of wait_for_challenge_completion
    CLOUDFLARE_CHALLENGES,       \* counter cloudflare_challenges_total
    CLOUDFLARE_BYPASS_SUCCESS,   \* counter cloudflare_bypass_success_total
    CLOUDFLARE_BYPASS_FAILURE,   \* counter cloudflare_bypass_failure_total
    before,               \* the three counters when this navigation began
    scrape_ret            \* what the scrape of this navigation returned

navVars == <<npc, navs, timeout, page_load_timeout, loads, first_load, polls,
             CLOUDFLARE_CHALLENGES, CLOUDFLARE_BYPASS_SUCCESS,
             CLOUDFLARE_BYPASS_FAILURE, before, scrape_ret>>

VARIABLES
    \* ---- _process_page_data on one page: the language fields ----
    mpc,                  \* "idle", "call" (made) or "returned"
    soup,                 \* what the page declares about its language
    metadata,             \* data['metadata']: its language entry
    metaData              \* data['structured_data']['metaData']: the same

metaVars == <<mpc, soup, metadata, metaData>>

VARIABLES
    \* ---- one wait_for_challenge_completion call ----
    wpc,                  \* "idle", "poll" (loop test), "solve", "returned"
    solve_attempts,       \* the local solve_attempts
    last_detection,       \* type of last_detection, "None" before the first
    detection,            \* what the last detect_bot_protection returned
    attempts,             \* per type: solve_challenge calls made for it
    wpolls,               \* passes of the loop that have slept
    wret                  \* what the call returned: "none", "True", "False"

waitVars == <<wpc, solve_attempts, last_detection, detection, attempts,
              wpolls, wret>>

VARIABLES
    \* ---- CrawlerService.start_crawl ----
    active_crawls         \* self.active_crawls: crawl_id -> response

bgVars == <<active_crawls>>

\* what the BrowserPool specification leaves alone
notPool == <<qmVars, crawlVars, cacheVars, keyVars, linkVars, navVars,
          metaVars, waitVars, bgVars>>
\* what the QueueManager specification leaves alone
notQM == <<poolVars, crawlVars, cacheVars, keyVars, linkVars, navVars,
          metaVars, waitVars, bgVars>>
\* what the crawl specification leaves alone
notCrawl == <<poolVars, cacheVars, keyVars, linkVars, navVars,
          metaVars, waitVars, bgVars>>
\* what the cache specification leaves alone, the semaphore apart
notCache == <<available_browsers, active_browsers, lock, bstate, spc, cur,
              result, cpc, csnap, qmVars, crawlVars, keyVars, linkVars,
              navVars, metaVars, waitVars, bgVars>>
\* what the cache key specification leaves alone
notKey == <<poolVars, qmVars, crawlVars, cacheVars, linkVars, navVars,
          metaVars, waitVars, bgVars>>
\* what the extract_links specification leaves alone
notLinks == <<poolVars, qmVars, crawlVars, cacheVars, keyVars, navVars,
          metaVars, waitVars, bgVars>>
\* what the navigation specification leaves alone
notNav == <<poolVars, qmVars, crawlVars, cacheVars, keyVars, linkVars,
           metaVars, waitVars, bgVars>>
\* what the language specification leaves alone
notMeta == <<poolVars, qmVars, crawlVars, cacheVars, keyVars, linkVars,
            navVars, waitVars, bgVars>>

\* what the challenge wait specification leaves alone, the counters apart
notWait == <<poolVars, qmVars, crawlVars, cacheVars, keyVars, linkVars,
            metaVars, bgVars>>
\* what start_crawl leaves alone
notBg == <<poolVars, cacheVars, keyVars, linkVars, navVars, metaVars,
          waitVars>>

vars == <<poolVars, qmVars, crawlVars, cacheVars, keyVars, linkVars,
          navVars, metaVars, waitVars, bgVars>>

Range(s) == {s[i] : i \in 1..Len(s)}
Front(s) == SubSeq(s, 1, Len(s) - 1)
Last(s) == s[Len(s)]

(***************************************************************************)
(* BrowserPool and WebScraper                                              *)
(***************************************************************************)
PoolInit ==
    /\ available_browsers = <<>>
    /\ active_browsers = {}
    /\ lock = Free
    /\ bstate = [b \in Handles |-> "new"]
    /\ semaphore = max_browsers
    /\ spc = [p \in Callers |-> "idle"]
    /\ cur = [p \in Callers |-> NoHandle]
    /\ result = [p \in Callers |-> "none"]
    /\ cpc = "idle"
    /\ csnap = {}

\* a health check that answers yes for every browser
_is_browser_healthy_Always(b) == bstate[b] \in {"new", "ok", "sick", "quit"}

\* _is_browser_healthy: current_url answers only on a live, uncrashed session
_is_browser_healthy(b) == bstate[b] = "ok"

\* get_browser: "if len(self.active_browsers) < self.max_browsers"
CanCreateOffByOne == Cardinality(active_browsers) <= max_browsers
CanCreate == Cardinality(active_browsers) < max_browsers

\* release_browser: "self.active_browsers.remove(browser)"
ActiveAfterReleaseKept(b) == active_browsers
ActiveAfterRelease(b) == active_browsers \ {b}

\* release_browser: "self.available_browsers.append(browser)"
AvailableAfterReleaseDropped(b) == available_browsers
AvailableAfterRelease(b) == Append(available_browsers, b)

\* _safely_quit_browser: browser.quit(), errors swallowed
_safely_quit_browser(b) == [bstate EXCEPT ![b] = "quit"]

\* scrape: "async with self.semaphore" obtained; _get_page_content then
\* waits for the pool lock inside get_browser
ScrapeStart(p) ==
    /\ spc[p] = "idle"
    /\ semaphore > 0
    /\ semaphore' = semaphore - 1
    /\ spc' = [spc EXCEPT ![p] = "get"]
    /\ UNCHANGED <<available_browsers, active_browsers, lock, bstate, cur,
                   result, cpc, csnap>>
    /\ UNCHANGED notPool

\* get_browser raised and the pool lock stayed with the call
AcquireFailedKeepsLock(p) ==
    /\ lock' = p
    /\ cur' = [cur EXCEPT ![p] = NoHandle]
    /\ result' = [result EXCEPT ![p] = "failure"]
    /\ semaphore' = semaphore + 1
    /\ spc' = [spc EXCEPT ![p] = "done"]

\* get_browser raised: "context = await get_browser()" stands before the
\* try/finally of _get_page_content, so release_browser is not called;
\* scrape's "except Exception" returns success=False and the "async with"
\* gives the permit back, with no suspension point on the way
AcquireFailed(p) ==
    /\ lock' = Free
    /\ cur' = [cur EXCEPT ![p] = NoHandle]
    /\ result' = [result EXCEPT ![p] = "failure"]
    /\ semaphore' = semaphore + 1
    /\ spc' = [spc EXCEPT ![p] = "done"]

\* "return BrowserContext(browser, ...)" after active_browsers.add(browser):
\* the constructor drives the browser (_setup_browser) and may raise
HandOut(p, b) ==
    /\ active_browsers' = active_browsers \cup {b}
    /\ \/ /\ lock' = Free
          /\ cur' = [cur EXCEPT ![p] = b]
          /\ spc' = [spc EXCEPT ![p] = "using"]
          /\ UNCHANGED <<result, semaphore>>
       \/ AcquireFailed(p)

\* get_browser: one pass of "while self.available_browsers", else creation
GetLoopBody(p) ==
    IF available_browsers # <<>>
    THEN \* browser = self.available_browsers.pop(); await health check
         /\ cur' = [cur EXCEPT ![p] = Last(available_browsers)]
         /\ available_browsers' = Front(available_browsers)
         /\ lock' = p
         /\ spc' = [spc EXCEPT ![p] = "g_health"]
         /\ UNCHANGED <<active_browsers, result, semaphore>>
    ELSE IF CanCreate
    THEN \/ \* webdriver.Chrome(...) raises: failed += 1; raise
            /\ AcquireFailed(p)
            /\ UNCHANGED <<available_browsers, active_browsers>>
         \/ \* webdriver.Chrome(...) returns a new handle
            /\ HandOut(p, p)
            /\ UNCHANGED available_browsers
    ELSE \* raise BrowserError("Too many active browsers")
         /\ AcquireFailed(p)
         /\ UNCHANGED <<available_browsers, active_browsers>>

\* the handle webdriver.Chrome(...) returns to call p, when it returns one
CreatedNow(p) == p \in active_browsers' /\ bstate[p] = "new"

\* get_browser: "async with self.lock" obtained, first pass of the loop
GetLock(p) ==
    /\ spc[p] = "get"
    /\ lock = Free
    /\ GetLoopBody(p)
    /\ bstate' = IF CreatedNow(p) THEN [bstate EXCEPT ![p] = "ok"] ELSE bstate
    /\ UNCHANGED <<cpc, csnap>>
    /\ UNCHANGED notPool

\* get_browser: the health check of the popped browser has answered
GetHealth(p) ==
    /\ spc[p] = "g_health"
    /\ lock = p
    /\ IF _is_browser_healthy(cur[p])
       THEN HandOut(p, cur[p])
       ELSE /\ spc' = [spc EXCEPT ![p] = "g_quit"]
            /\ UNCHANGED <<active_browsers, lock, cur, result, semaphore>>
    /\ UNCHANGED <<available_browsers, bstate, cpc, csnap>>
    /\ UNCHANGED notPool

\* get_browser: "await self._safely_quit_browser(browser)" is over, next
\* pass of the loop
GetQuit(p) ==
    /\ spc[p] = "g_quit"
    /\ lock = p
    /\ GetLoopBody(p)
    /\ bstate' = IF CreatedNow(p)
                 THEN [_safely_quit_browser(cur[p]) EXCEPT ![p] = "ok"]
                 ELSE _safely_quit_browser(cur[p])
    /\ UNCHANGED <<cpc, csnap>>
    /\ UNCHANGED notPool

\* _get_page_content: navigate / wait / page source / screenshot / links.
\* Either all succeed or one raises (navigation error, bot-protection
\* failure, capture error); "finally" calls release_browser in both cases.
UseBrowser(p) ==
    /\ spc[p] = "using"
    /\ \E ok \in BOOLEAN :
          result' = [result EXCEPT ![p] = IF ok THEN "captured" ELSE "raised"]
    /\ spc' = [spc EXCEPT ![p] = "release"]
    /\ UNCHANGED <<available_browsers, active_browsers, lock, bstate,
                   semaphore, cur, cpc, csnap>>
    /\ UNCHANGED notPool

\* release_browser: "async with self.lock", context.cleanup(), membership
\* test, removal from active, then the await of the health check or the quit
ReleaseLock(p) ==
    /\ spc[p] = "release"
    /\ lock = Free
    /\ lock' = p
    /\ IF cur[p] \in active_browsers
       THEN /\ active_browsers' = ActiveAfterRelease(cur[p])
            /\ spc' = [spc EXCEPT ![p] =
                          IF Len(available_browsers) < max_browsers
                          THEN "r_health" ELSE "r_quit"]
       ELSE /\ spc' = [spc EXCEPT ![p] = "r_quit"]
            /\ UNCHANGED active_browsers
    /\ UNCHANGED <<available_browsers, bstate, semaphore, cur, result,
                   cpc, csnap>>
    /\ UNCHANGED notPool

\* release_browser: the health check has answered
ReleaseHealth(p) ==
    /\ spc[p] = "r_health"
    /\ lock = p
    /\ IF _is_browser_healthy(cur[p])
       THEN /\ available_browsers' = AvailableAfterRelease(cur[p])
            /\ lock' = Free
            /\ spc' = [spc EXCEPT ![p] = "released"]
       ELSE /\ spc' = [spc EXCEPT ![p] = "r_quit"]
            /\ UNCHANGED <<available_browsers, lock>>
    /\ UNCHANGED <<active_browsers, bstate, semaphore, cur, result,
                   cpc, csnap>>
    /\ UNCHANGED notPool

\* release_browser: "await self._safely_quit_browser(browser)"
ReleaseQuit(p) ==
    /\ spc[p] = "r_quit"
    /\ lock = p
    /\ bstate' = _safely_quit_browser(cur[p])
    /\ lock' = Free
    /\ spc' = [spc EXCEPT ![p] = "released"]
    /\ UNCHANGED <<available_browsers, active_browsers, semaphore, cur,
                   result, cpc, csnap>>
    /\ UNCHANGED notPool

\* scrape after _get_page_content: _process_page_data succeeds or raises;
\* the result dict is returned and the semaphore permit given back
ScrapeReturn(p) ==
    /\ spc[p] = "released"
    /\ \E processed \in BOOLEAN :
          result' = [result EXCEPT ![p] =
                        IF result[p] = "captured" /\ processed
                        THEN "success" ELSE "failure"]
    /\ cur' = [cur EXCEPT ![p] = NoHandle]
    /\ semaphore' = semaphore + 1
    /\ spc' = [spc EXCEPT ![p] = "done"]
    /\ UNCHANGED <<available_browsers, active_browsers, lock, bstate,
                   cpc, csnap>>
    /\ UNCHANGED notPool

\* the browser process dies or stops answering (environment)
BrowserCrash(b) ==
    /\ bstate[b] = "ok"
    /\ bstate' = [bstate EXCEPT ![b] = "sick"]
    /\ UNCHANGED <<available_browsers, active_browsers, lock, semaphore, spc,
                   cur, result, cpc, csnap>>
    /\ UNCHANGED notPool

\* cleanup: "async with self.lock", all_browsers snapshot, await gather(quit)
CleanupLock ==
    /\ cpc = "idle"
    /\ lock = Free
    /\ lock' = CleanupId
    /\ csnap' = active_browsers \cup Range(available_browsers)
    /\ cpc' = "quitting"
    /\ UNCHANGED <<available_browsers, active_browsers, bstate, semaphore,
                   spc, cur, result>>
    /\ UNCHANGED notPool

\* cleanup: the quits are done; clear both collections
CleanupDone ==
    /\ cpc = "quitting"
    /\ lock = CleanupId
    /\ bstate' = [b \in Handles |-> IF b \in csnap THEN "quit" ELSE bstate[b]]
    /\ available_browsers' = <<>>
    /\ active_browsers' = {}
    /\ lock' = Free
    /\ csnap' = {}
    /\ cpc' = "idle"
    /\ UNCHANGED <<semaphore, spc, cur, result>>
    /\ UNCHANGED notPool

NextPool ==
    \/ \E p \in Callers : ScrapeStart(p)
    \/ \E p \in Callers : GetLock(p)
    \/ \E p \in Callers : GetHealth(p)
    \/ \E p \in Callers : GetQuit(p)
    \/ \E p \in Callers : UseBrowser(p)
    \/ \E p \in Callers : ReleaseLock(p)
    \/ \E p \in Callers : ReleaseHealth(p)
    \/ \E p \in Callers : ReleaseQuit(p)
    \/ \E p \in Callers : ScrapeReturn(p)
    \/ \E b \in Handles : BrowserCrash(b)
    \/ CleanupLock
    \/ CleanupDone

(***************************************************************************)
(* URLs                                                                    *)
(***************************************************************************)
Paths == 0..(NumPaths - 1)
Hosts == {"site", "other"}
\* a URL string without fragment, params and query
URLs == [host : Hosts, path : Paths]
\* an href attribute: a URL that may carry a fragment or query; one page
\* of the other host is enough to link to
Hrefs ==
    {h \in [host : Hosts, path : Paths, frag : BOOLEAN] :
        h.host = "other" => h.path = 0}
\* str(request.url)
SeedUrl == [host |-> "site", path |-> 0]
NoUrl == [host |-> "none", path |-> 0]
\* urlparse(url).netloc
netloc(u) == u.host
\* the pages a site can serve: sets of at most MaxLinks hrefs
Htmls == {h \in SUBSET Hrefs : Cardinality(h) <= MaxLinks}

Min(a, b) == IF a <= b THEN a ELSE b

(***************************************************************************)
(* QueueManager                                                            *)
(***************************************************************************)
NoCall == [op |-> "none", url |-> NoUrl, depth |-> 0, ret |-> FALSE]

QMInit ==
    /\ max_depth \in 1..MaxDepthBound
    /\ max_pages \in 1..MaxPagesBound
    /\ queue = <<>>
    /\ seen_urls = {}
    /\ in_progress = {}
    /\ url_depths = << >>
    /\ last = NoCall
    /\ completed = {}
    /\ tried = {}
    /\ admit_count = [u \in URLs |-> 0]
    /\ dequeue_count = [u \in URLs |-> 0]

\* add_url: the admission test
AddUrlAdmitsNoPageLimit(url, depth) ==
    /\ url \notin seen_urls
    /\ depth <= max_depth
    /\ Cardinality(seen_urls) <= max_pages
AddUrlAdmitsStrictDepth(url, depth) ==
    /\ url \notin seen_urls
    /\ depth < max_depth
    /\ Cardinality(seen_urls) < max_pages
AddUrlAdmitsNoDedup(url, depth) ==
    /\ depth <= max_depth
    /\ Cardinality(seen_urls) < max_pages
AddUrlAdmits(url, depth) ==
    /\ url \notin seen_urls
    /\ depth <= max_depth
    /\ Cardinality(seen_urls) < max_pages

\* add_url: "self.seen_urls.add(url)"
SeenAfterAdmitForgotten(url) == seen_urls
SeenAfterAdmit(url) == seen_urls \cup {url}

\* self.url_depths[url] = depth
DictSet(d, k, v) ==
    [x \in (DOMAIN d) \cup {k} |-> IF x = k THEN v ELSE d[x]]

\* add_url(url, depth, parent_url)
add_url(url, depth) ==
    /\ IF AddUrlAdmits(url, depth)
       THEN /\ seen_urls' = SeenAfterAdmit(url)
            /\ url_depths' = DictSet(url_depths, url, depth)
            /\ queue' = Append(queue, url)
            /\ admit_count' = [admit_count EXCEPT ![url] = @ + 1]
       ELSE UNCHANGED <<seen_urls, url_depths, queue, admit_count>>
    /\ last' = [op |-> "add_url", url |-> url, depth |-> depth,
                ret |-> AddUrlAdmits(url, depth)]
    /\ tried' = tried \cup {url}
    /\ UNCHANGED <<max_depth, max_pages, in_progress, completed,
                   dequeue_count>>

\* get_next_url: "self.in_progress.add(url)"
InProgressAfterGetSkipped(url) == in_progress
InProgressAfterGet(url) == in_progress \cup {url}

\* get_next_url(): None on an empty queue, else the oldest URL, which moves
\* to in_progress (rate_limit_delay is 0.0, so no sleep)
get_next_url ==
    /\ IF queue = <<>>
       THEN /\ last' = [op |-> "get_next_url", url |-> NoUrl, depth |-> 0,
                        ret |-> FALSE]
            /\ UNCHANGED <<queue, in_progress, dequeue_count>>
       ELSE /\ queue' = Tail(queue)
            /\ in_progress' = InProgressAfterGet(Head(queue))
            /\ dequeue_count' = [dequeue_count EXCEPT ![Head(queue)] = @ + 1]
            /\ last' = [op |-> "get_next_url", url |-> Head(queue),
                        depth |-> 0, ret |-> TRUE]
    /\ UNCHANGED <<max_depth, max_pages, seen_urls, url_depths, completed,
                   tried, admit_count>>

\* a mark_complete that leaves the URL in in_progress
mark_complete_Kept(url) ==
    /\ in_progress' = in_progress
    /\ completed' = completed
    /\ last' = [op |-> "mark_complete", url |-> url, depth |-> 0,
                ret |-> FALSE]
    /\ UNCHANGED <<max_depth, max_pages, queue, seen_urls, url_depths,
                   tried, admit_count, dequeue_count>>

\* mark_complete(url): self.in_progress.discard(url)
mark_complete(url) ==
    /\ in_progress' = in_progress \ {url}
    /\ completed' = IF url \in in_progress THEN completed \cup {url}
                    ELSE completed
    /\ last' = [op |-> "mark_complete", url |-> url, depth |-> 0,
                ret |-> FALSE]
    /\ UNCHANGED <<max_depth, max_pages, queue, seen_urls, url_depths,
                   tried, admit_count, dequeue_count>>

\* get_depth(url): self.url_depths.get(url, 0)
get_depth(url) == IF url \in DOMAIN url_depths THEN url_depths[url] ELSE 0

\* bool(self.queue): asyncio.Queue defines neither __bool__ nor __len__, so
\* the object is truthy whatever it holds
QueueTruthy == TRUE

\* is_complete: "not self.queue and not self.in_progress"
is_complete == ~QueueTruthy /\ in_progress = {}

\* the QueueManager API called with arbitrary arguments
QM_add_url(u, d) == add_url(u, d) /\ UNCHANGED notQM
QM_get_next_url == get_next_url /\ UNCHANGED notQM
QM_mark_complete(u) == mark_complete(u) /\ UNCHANGED notQM

\* the URLs and depths the API is called with
QMUrls == {u \in URLs : u.host = "site"}
QMDepths == {0, max_depth, max_depth + 1}

NextQM ==
    \/ \E u \in QMUrls, d \in QMDepths : QM_add_url(u, d)
    \/ QM_get_next_url
    \/ \E u \in QMUrls : QM_mark_complete(u)

(***************************************************************************)
(* LinkExtractor                                                           *)
(***************************************************************************)
\* self.base_domain = urlparse(str(request.url)).netloc
base_domain == netloc(SeedUrl)

\* robots.txt of the seed's site, as parsed by _load_robots_txt: the paths
\* it disallows
RobotsDisallowed == {NumPaths - 1}

\* _normalize_url: urljoin, then fragment, params and query are dropped
_normalize_url(href) == [host |-> href.host, path |-> href.path]

\* pattern.search(url) for one of the patterns of a list
AnyMatch(patterns, url) ==
    \E i \in 1..Len(patterns) : url.path \in patterns[i]

\* _should_include_url
_should_include_url_IncludeFirst(url) ==
    /\ netloc(url) = base_domain
    /\ \/ AnyMatch(include_patterns, url)
       \/ include_patterns = <<>> /\ ~AnyMatch(exclude_patterns, url)
_should_include_url_AnyDomain(url) ==
    /\ ~AnyMatch(exclude_patterns, url)
    /\ include_patterns # <<>> => AnyMatch(include_patterns, url)
_should_include_url(url) ==
    /\ netloc(url) = base_domain
    /\ ~AnyMatch(exclude_patterns, url)
    /\ include_patterns # <<>> => AnyMatch(include_patterns, url)

\* _is_allowed_by_robots
_is_allowed_by_robots(url) ==
    ~respect_robots \/ url.path \notin RobotsDisallowed

\* extract_links(html, base_url)
extract_links(doc) ==
    {u \in {_normalize_url(h) : h \in doc} :
        _should_include_url(u) /\ _is_allowed_by_robots(u)}

\* no call of extract_links
LinkIdle ==
    /\ lpc = "idle"
    /\ links_html = {}
    /\ valid_links = {}

\* a LinkExtractor built from a request, and the page handed to it
LinkInit ==
    /\ lpc = "call"
    /\ links_html \in Htmls
    /\ valid_links = {}

\* extract_links runs from "valid_links = set()" to "return valid_links"
ExtractLinks ==
    /\ lpc = "call"
    /\ valid_links' = extract_links(links_html)
    /\ lpc' = "returned"
    /\ UNCHANGED links_html
    /\ UNCHANGED notLinks

NextLinks == ExtractLinks

(***************************************************************************)
(* CrawlerService                                                          *)
(***************************************************************************)
Slots == 1..worker_threads

CrawlIdle ==
    /\ dpc = "start"
    /\ clock = Free
    /\ pages = <<>>
    /\ stats = [total_pages |-> 0, success_count |-> 0, failed_count |-> 0,
                skipped_count |-> 0]
    /\ status = "in_progress"
    /\ tpc = [i \in Slots |-> "free"]
    /\ turl = [i \in Slots |-> NoUrl]
    /\ tdepth = [i \in Slots |-> 0]
    /\ tlinks = [i \in Slots |-> {}]
    /\ scrape_count = [u \in URLs |-> 0]
    /\ offsite_offered = FALSE

\* the request of a crawl
RequestInit ==
    /\ exclude_patterns \in {<<>>, <<{1}>>}
    /\ include_patterns \in {<<>>, <<{0, 1}>>}
    /\ respect_robots \in BOOLEAN

\* the request of a crawl whose patterns may reject its own seed: an exclude
\* pattern that matches the seed, an include pattern that does not
SeedRequestInit ==
    /\ exclude_patterns \in {<<>>, <<{0}>>}
    /\ include_patterns \in {<<>>, <<{1}>>}
    /\ respect_robots \in BOOLEAN

NoRequest ==
    /\ exclude_patterns = <<>>
    /\ include_patterns = <<>>
    /\ respect_robots = FALSE

\* crawl_sync: "await queue_manager.add_url(str(request.url))"
CrawlStart ==
    /\ dpc = "start"
    /\ add_url(SeedUrl, 0)
    /\ dpc' = "loop"
    /\ UNCHANGED <<exclude_patterns, include_patterns, respect_robots, clock,
                   pages, stats, status, tpc, turl, tdepth, tlinks,
                   scrape_count, offsite_offered>>
    /\ UNCHANGED notCrawl

\* crawl_sync: batch_size calls of get_next_url keep the URLs that are not
\* None: the first n queued URLs, n = min(batch_size, queue length)
BatchSize == Min(worker_threads, max_pages - Len(pages))
Drained == Min(BatchSize, Len(queue))

\* crawl_sync: the test made when the batch is empty
ReallyDoneViaIsComplete == is_complete
ReallyDone == in_progress = {} /\ queue = <<>>

\* crawl_sync: one pass of "while True" up to the creation of the tasks
DriverLoop ==
    /\ dpc = "loop"
    /\ clock = Free
    /\ IF is_complete \/ Len(pages) >= max_pages
       THEN \* break
            /\ dpc' = "finish"
            /\ UNCHANGED <<queue, in_progress, dequeue_count, last, tpc, turl,
                           tdepth>>
       ELSE IF Drained = 0
       THEN \* "if not processing_urls": break, or sleep 0.1 s and continue
            /\ dpc' = IF ReallyDone THEN "finish" ELSE "loop"
            /\ last' = [op |-> "get_next_url", url |-> NoUrl, depth |-> 0,
                        ret |-> FALSE]
            /\ UNCHANGED <<queue, in_progress, dequeue_count, tpc, turl,
                           tdepth>>
       ELSE \* the batch leaves the queue; one task per URL is created
            /\ queue' = SubSeq(queue, Drained + 1, Len(queue))
            /\ in_progress' =
                  in_progress \cup {queue[i] : i \in 1..Drained}
            /\ dequeue_count' =
                  [u \in DOMAIN dequeue_count |->
                      dequeue_count[u]
                      + Cardinality({i \in 1..Drained : queue[i] = u})]
            /\ last' = [op |-> "get_next_url", url |-> queue[Drained],
                        depth |-> 0, ret |-> TRUE]
            /\ tpc' = [i \in Slots |->
                          IF i <= Drained THEN "scrape" ELSE "free"]
            /\ turl' = [i \in Slots |->
                          IF i <= Drained THEN queue[i] ELSE NoUrl]
            /\ tdepth' = [i \in Slots |->
                          IF i <= Drained THEN get_depth(queue[i]) ELSE 0]
            /\ dpc' = "gather"
    /\ UNCHANGED <<max_depth, max_pages, seen_urls, url_depths, completed,
                   tried, admit_count>>
    /\ UNCHANGED <<exclude_patterns, include_patterns, respect_robots, clock,
                   pages, stats, status, tlinks, scrape_count,
                   offsite_offered>>
    /\ UNCHANGED notCrawl

\* crawl_sync: "await asyncio.gather(*tasks)" returns
DriverGather ==
    /\ dpc = "gather"
    /\ \A i \in Slots : tpc[i] \in {"free", "finished"}
    /\ tpc' = [i \in Slots |-> "free"]
    /\ turl' = [i \in Slots |-> NoUrl]
    /\ tdepth' = [i \in Slots |-> 0]
    /\ dpc' = "loop"
    /\ UNCHANGED qmVars
    /\ UNCHANGED <<exclude_patterns, include_patterns, respect_robots, clock,
                   pages, stats, status, tlinks, scrape_count,
                   offsite_offered>>
    /\ UNCHANGED notCrawl

\* crawl_sync: "response.stats.total_pages = len(response.pages)"
TotalPagesFromSeen == Cardinality(seen_urls)
TotalPages == Len(pages)

\* crawl_sync: final statistics after the loop
DriverFinish ==
    /\ dpc = "finish"
    /\ status' = "completed"
    /\ stats' = [stats EXCEPT !.total_pages = TotalPages]
    /\ dpc' = "done"
    /\ UNCHANGED qmVars
    /\ UNCHANGED <<exclude_patterns, include_patterns, respect_robots, clock,
                   pages, tpc, turl, tdepth, tlinks, scrape_count,
                   offsite_offered>>
    /\ UNCHANGED notCrawl

\* _process_page: "if depth < request.max_depth"
BelowMaxDepthInclusive(i) == tdepth[i] <= max_depth
BelowMaxDepth(i) == tdepth[i] < max_depth

\* _process_page: "await self.scraper.scrape(url, ...)" returns or raises.
\* On success the CrawledPage is built (pydantic may reject it) and, below
\* max_depth, extract_links runs on the page's HTML.
\* The page comes from the given set of pages.
TaskScrapeOf(i, htmls) ==
    /\ tpc[i] = "scrape"
    /\ scrape_count' = [scrape_count EXCEPT ![turl[i]] = @ + 1]
    /\ \E html \in htmls, ok \in BOOLEAN :
          /\ offsite_offered' =
                (offsite_offered
                 \/ (ok /\ \E h \in html : h.host # netloc(SeedUrl)))
          /\ IF ok
             THEN IF BelowMaxDepth(i)
                  THEN /\ tlinks' = [tlinks EXCEPT ![i] = extract_links(html)]
                       /\ tpc' = [tpc EXCEPT ![i] = "links"]
                  ELSE /\ tpc' = [tpc EXCEPT ![i] = "store"]
                       /\ UNCHANGED tlinks
             ELSE \* success=False, or an exception
                  /\ tpc' = [tpc EXCEPT ![i] = "failed"]
                  /\ UNCHANGED tlinks
    /\ UNCHANGED qmVars
    /\ UNCHANGED <<exclude_patterns, include_patterns, respect_robots, dpc,
                   clock, pages, stats, status, turl, tdepth>>
    /\ UNCHANGED notCrawl

\* the scrape of a URL of an arbitrary site
TaskScrape(i) == TaskScrapeOf(i, Htmls)

\* A site of seven pages: the seed links to pages 1, 2 and 3; page 1 links
\* to page 4; page 3 links to pages 5 and 6; page 4 links to page 5.
SitePaths == 0..6
SiteUrls == [host : {"site"}, path : SitePaths]
SiteLinks(path) ==
    CASE path = 0 -> {1, 2, 3}
      [] path = 1 -> {4}
      [] path = 3 -> {5, 6}
      [] path = 4 -> {5}
      [] OTHER -> {}
\* the hrefs of the page that the site serves at url
Site(url) ==
    {[host |-> "site", path |-> q, frag |-> FALSE] : q \in SiteLinks(url.path)}

\* the scrape of a URL of that site
TaskScrapeSite(i) == TaskScrapeOf(i, {Site(turl[i])})

\* a crawl of that site down to depth 3, up to seven pages, no patterns,
\* robots ignored
SiteCrawlInit ==
    /\ max_depth = 3
    /\ max_pages = 7
    /\ queue = <<>>
    /\ seen_urls = {}
    /\ in_progress = {}
    /\ url_depths = << >>
    /\ last = NoCall
    /\ completed = {}
    /\ tried = {}
    /\ admit_count = [u \in SiteUrls |-> 0]
    /\ dequeue_count = [u \in SiteUrls |-> 0]
    /\ exclude_patterns = <<>>
    /\ include_patterns = <<>>
    /\ respect_robots = FALSE
    /\ dpc = "start"
    /\ clock = Free
    /\ pages = <<>>
    /\ stats = [total_pages |-> 0, success_count |-> 0, failed_count |-> 0,
                skipped_count |-> 0]
    /\ status = "in_progress"
    /\ tpc = [i \in Slots |-> "free"]
    /\ turl = [i \in Slots |-> NoUrl]
    /\ tdepth = [i \in Slots |-> 0]
    /\ tlinks = [i \in Slots |-> {}]
    /\ scrape_count = [u \in SiteUrls |-> 0]
    /\ offsite_offered = FALSE

\* _process_page: "async with self._lock: for link in new_links:
\* await queue_manager.add_url(link, depth + 1, url)", one link at a time in
\* the set's iteration order
TaskAddLink(i) ==
    /\ tpc[i] = "links"
    /\ clock \in {Free, i}
    /\ IF tlinks[i] = {}
       THEN /\ clock' = Free
            /\ tpc' = [tpc EXCEPT ![i] = "store"]
            /\ UNCHANGED <<qmVars, tlinks>>
       ELSE \E link \in tlinks[i] :
               /\ add_url(link, tdepth[i] + 1)
               /\ tlinks' = [tlinks EXCEPT ![i] = @ \ {link}]
               /\ clock' = i
               /\ UNCHANGED tpc
    /\ UNCHANGED <<exclude_patterns, include_patterns, respect_robots, dpc,
                   pages, stats, status, turl, tdepth, scrape_count,
                   offsite_offered>>
    /\ UNCHANGED notCrawl

\* _process_page: "response.pages.append(page); success_count += 1"
TaskStore(i) ==
    /\ tpc[i] = "store"
    /\ clock = Free
    /\ pages' = Append(pages, [url |-> turl[i], depth |-> tdepth[i]])
    /\ stats' = [stats EXCEPT !.success_count = @ + 1]
    /\ tpc' = [tpc EXCEPT ![i] = "complete"]
    /\ UNCHANGED qmVars
    /\ UNCHANGED <<exclude_patterns, include_patterns, respect_robots, dpc,
                   clock, status, turl, tdepth, tlinks, scrape_count,
                   offsite_offered>>
    /\ UNCHANGED notCrawl

\* _process_page: "response.stats.failed_count += 1" (else and except)
TaskFailedAborts(i) ==
    /\ tpc[i] = "failed"
    /\ clock = Free
    /\ status' = "failed"
    /\ dpc' = "done"
    /\ tpc' = [tpc EXCEPT ![i] = "complete"]
    /\ UNCHANGED qmVars
    /\ UNCHANGED <<exclude_patterns, include_patterns, respect_robots,
                   clock, pages, stats, turl, tdepth, tlinks, scrape_count,
                   offsite_offered>>
    /\ UNCHANGED notCrawl
TaskFailed(i) ==
    /\ tpc[i] = "failed"
    /\ clock = Free
    /\ stats' = [stats EXCEPT !.failed_count = @ + 1]
    /\ tpc' = [tpc EXCEPT ![i] = "complete"]
    /\ UNCHANGED qmVars
    /\ UNCHANGED <<exclude_patterns, include_patterns, respect_robots, dpc,
                   clock, pages, status, turl, tdepth, tlinks, scrape_count,
                   offsite_offered>>
    /\ UNCHANGED notCrawl

\* _process_page: "finally: await queue_manager.mark_complete(url)"
TaskComplete(i) ==
    /\ tpc[i] = "complete"
    /\ mark_complete(turl[i])
    /\ tpc' = [tpc EXCEPT ![i] = "finished"]
    /\ UNCHANGED <<exclude_patterns, include_patterns, respect_robots, dpc,
                   clock, pages, stats, status, turl, tdepth, tlinks,
                   scrape_count, offsite_offered>>
    /\ UNCHANGED notCrawl

Next ==
    \/ CrawlStart
    \/ DriverLoop
    \/ DriverGather
    \/ DriverFinish
    \/ \E i \in Slots : TaskScrape(i)
    \/ \E i \in Slots : TaskAddLink(i)
    \/ \E i \in Slots : TaskStore(i)
    \/ \E i \in Slots : TaskFailed(i)
    \/ \E i \in Slots : TaskComplete(i)

\* crawl_sync on the site of seven pages
NextSite ==
    \/ CrawlStart
    \/ DriverLoop
    \/ DriverGather
    \/ DriverFinish
    \/ \E i \in Slots : TaskScrapeSite(i)
    \/ \E i \in Slots : TaskAddLink(i)
    \/ \E i \in Slots : TaskStore(i)
    \/ \E i \in Slots : TaskFailed(i)
    \/ \E i \in Slots : TaskComplete(i)

\* The task that runs crawl_sync is cancelled (Task.cancel() by its owner)
\* while it waits in the loop or in "await asyncio.gather(*tasks)":
\* CancelledError is not an Exception, so it passes "except Exception" and
\* leaves crawl_sync with the response as it stands; gather cancels the
\* page tasks, which pass their own "except Exception" and run "finally:
\* await queue_manager.mark_complete(url)".  QueueManager has no close.
CancelCrawl ==
    /\ dpc \in {"loop", "gather"}
    /\ dpc' = "cancelled"
    /\ tpc' = [i \in Slots |->
                  IF tpc[i] \in {"scrape", "links", "store", "failed"}
                  THEN "complete" ELSE tpc[i]]
    /\ tlinks' = [i \in Slots |-> {}]
    /\ clock' = Free
    /\ UNCHANGED qmVars
    /\ UNCHANGED <<exclude_patterns, include_patterns, respect_robots, pages,
                   stats, status, turl, tdepth, scrape_count,
                   offsite_offered>>
    /\ UNCHANGED notCrawl

NextCancel ==
    \/ Next
    \/ CancelCrawl

(***************************************************************************)
(* Python values, JSON                                                     *)
(***************************************************************************)
\* a Python value: its type and its text
PyNone == [py |-> "NoneType", v |-> ""]
PyTrue == [py |-> "bool", v |-> "True"]
PyFalse == [py |-> "bool", v |-> "False"]
Str(s) == [py |-> "str", v |-> s]
PyInt(n) == [py |-> "int", v |-> ToString(n)]
\* a key that the options dict does not hold
Absent == [py |-> "absent", v |-> ""]

\* options.get(k, default); options.get(k) is get(options, k, PyNone)
get(options, k, default) ==
    IF options[k] = Absent THEN default ELSE options[k]

\* truth value of a Python value ("if x:", "not x", "x or y")
bool(x) ==
    ~ \/ x.py \in {"NoneType", "absent"}
      \/ x = PyFalse
      \/ x.py = "int" /\ x.v = "0"
      \/ x.py = "str" /\ x.v = ""

\* json.dumps of a scalar (the strings of the model need no escaping)
json_dumps_scalar(x) ==
    CASE x.py = "NoneType" -> "null"
      [] x.py = "bool" -> IF x = PyTrue THEN "true" ELSE "false"
      [] x.py = "int" -> x.v
      [] x.py = "str" -> "\"" \o x.v \o "\""

(***************************************************************************)
(* CacheService                                                            *)
(***************************************************************************)
\* settings.CACHE_TTL, the default of the default in scrape, and
\* CacheService.default_ttl = timedelta(hours=24), in seconds
CACHE_TTL == 86400

\* _generate_cache_key: 'scrape:' + sha256(url + '|' + json.dumps(
\* relevant_options, sort_keys=True)); the hash is taken as collision free
\* and modelled by the string it is computed from
_generate_cache_key_NoMobile(url, options) ==
    "scrape:" \o url \o "|"
       \o "{\"includeRawHtml\": "
       \o json_dumps_scalar(get(options, "include_raw_html", PyFalse))
       \o ", \"includeScreenshot\": "
       \o json_dumps_scalar(get(options, "include_screenshot", PyFalse))
       \o ", \"onlyMainContent\": "
       \o json_dumps_scalar(get(options, "only_main", PyTrue))
       \o ", \"waitFor\": "
       \o json_dumps_scalar(get(options, "wait_for_selector", PyNone))
       \o "}"
_generate_cache_key(url, options) ==
    "scrape:" \o url \o "|"
       \o "{\"includeRawHtml\": "
       \o json_dumps_scalar(get(options, "include_raw_html", PyFalse))
       \o ", \"includeScreenshot\": "
       \o json_dumps_scalar(get(options, "include_screenshot", PyFalse))
       \o ", \"mobile\": "
       \o json_dumps_scalar(get(options, "mobile", PyFalse))
       \o ", \"onlyMainContent\": "
       \o json_dumps_scalar(get(options, "only_main", PyTrue))
       \o ", \"waitFor\": "
       \o json_dumps_scalar(get(options, "wait_for_selector", PyNone))
       \o "}"

\* the keys an options dict may hold
OptionKeys == {"only_main", "wait_for_selector", "mobile",
               "include_screenshot", "include_raw_html", "timeout",
               "headers", "user_agent", "cache_ttl", "bypass_cache"}
\* the values tried for each key
OptionValues(k) ==
    CASE k \in {"only_main", "mobile", "include_screenshot",
                "include_raw_html"} -> {Absent, PyTrue, PyFalse}
      [] k = "wait_for_selector" -> {Absent, PyNone, Str("#main")}
      [] k = "timeout" -> {Absent, PyInt(10), PyInt(30)}
      [] k = "headers" -> {Absent, PyNone, Str("Accept: text/html")}
      [] k = "user_agent" -> {Absent, Str("Mozilla/5.0")}
      [] k = "cache_ttl" -> {Absent, PyInt(1)}
      [] k = "bypass_cache" -> {Absent, PyFalse, PyTrue}
NoOptions == [k \in OptionKeys |-> Absent]
ScrapeUrls == {"https://x.test/a", "https://x.test/b"}
NoReq == [url |-> "", options |-> NoOptions]

\* the options that _generate_cache_key reads
RelevantKeys == {"only_main", "wait_for_selector", "mobile",
                 "include_screenshot", "include_raw_html"}

\* pairs of requests: any URL and relevant options for the first, the
\* second equal to it or different in the URL or in one option
KeyInit ==
    /\ \E u \in ScrapeUrls :
       \E g \in [RelevantKeys -> UNION {OptionValues(k) : k \in RelevantKeys}] :
          /\ \A k \in RelevantKeys : g[k] \in OptionValues(k)
          /\ reqA = [url |-> u,
                     options |-> [k \in OptionKeys |->
                                     IF k \in RelevantKeys THEN g[k]
                                     ELSE Absent]]
    /\ \/ reqB = reqA
       \/ \E u \in ScrapeUrls : reqB = [reqA EXCEPT !.url = u]
       \/ \E k \in OptionKeys : \E x \in OptionValues(k) :
             reqB = [reqA EXCEPT !.options[k] = x]
    /\ keyA = ""
    /\ keyB = ""

KeyIdle ==
    /\ reqA = NoReq
    /\ reqB = NoReq
    /\ keyA = ""
    /\ keyB = ""

\* get_cached_result / cache_result: "cache_key = self._generate_cache_key(
\* url, options)", for one request and for the other
GenerateKeyA ==
    /\ keyA = ""
    /\ keyA' = _generate_cache_key(reqA.url, reqA.options)
    /\ UNCHANGED <<reqA, reqB, keyB>>
    /\ UNCHANGED notKey

GenerateKeyB ==
    /\ keyB = ""
    /\ keyB' = _generate_cache_key(reqB.url, reqB.options)
    /\ UNCHANGED <<reqA, reqB, keyA>>
    /\ UNCHANGED notKey

NextKey == GenerateKeyA \/ GenerateKeyB

(***************************************************************************)
(* WebScraper.scrape with a CacheService                                   *)
(***************************************************************************)
Scrapers == 1..NumScrapers

\* what the site may serve for a URL when it is fetched
Contents(url) == {"A of " \o url, "B of " \o url}
AllContents == UNION {Contents(u) : u \in ScrapeUrls}

\* the requests made: either URL, cache bypassed or not
CacheRequests ==
    {[url |-> u, options |-> [NoOptions EXCEPT !["bypass_cache"] = b]] :
        u \in ScrapeUrls, b \in {Absent, PyTrue}}

\* the keys of the "data" dict of a result that the model keeps
DataFields == {"markdown", "rawHtml", "statusCode", "error", "warning"}
NoData == [f \in DataFields |-> PyNone]

\* where an exception was raised, and its text
Stages == {"acquire", "navigate", "capture", "process"}
Message(site) ==
    CASE site = "acquire" -> "Too many active browsers"
      [] site = "navigate" -> "Failed to bypass cloudflare challenge"
      [] site = "capture" -> "Message: stale element reference"
      [] site = "process" -> "'NoneType' object is not subscriptable"
      [] site = "cache" -> "Redis URL must specify one of the following schemes"
Raise(site) == [site |-> site, msg |-> Message(site)]
\* str(e)
str(e) == e.msg

\* _get_page_content and _process_page_data: the dict that scrape returns
\* as "data" when nothing raises
processed_data(url, options, content) ==
    [markdown |-> Str(IF bool(get(options, "only_main", PyTrue))
                      THEN "main of " \o content ELSE "all of " \o content),
     rawHtml |-> IF bool(get(options, "include_raw_html", PyNone))
                 THEN Str(content) ELSE PyNone,
     statusCode |-> PyInt(200),
     error |-> PyNone,
     warning |-> PyNone]

\* scrape: the three returns and the raise; the dict of the inner except has
\* no 'cached' key; "site" remembers where the exception came from
CachedReturn(cached_result) ==
    [kind |-> "returned", success |-> TRUE, cached |-> TRUE,
     data |-> cached_result, site |-> ""]
FreshReturn(data) ==
    [kind |-> "returned", success |-> TRUE, cached |-> FALSE,
     data |-> data, site |-> ""]
InnerExceptReraises(url, e) ==
    [kind |-> "raised", success |-> FALSE, cached |-> FALSE,
     data |-> NoData, site |-> e.site]
InnerExcept(url, e) ==
    [kind |-> "returned", success |-> FALSE, cached |-> FALSE,
     data |-> [NoData EXCEPT !.statusCode = PyInt(500),
                             !.error = Str(str(e)),
                             !.warning = Str(str(e))],
     site |-> e.site]
OuterExcept(e) ==
    [kind |-> "raised", success |-> FALSE, cached |-> FALSE,
     data |-> NoData, site |-> e.site]
NoRet ==
    [kind |-> "none", success |-> FALSE, cached |-> FALSE, data |-> NoData,
     site |-> ""]

\* json.dumps(result) and json.loads(cached_data) on a "data" dict; the
\* text of the dict is kept member by member
JsonScalars ==
    {PyNone, PyTrue, PyFalse, PyInt(200), PyInt(500)}
       \cup {Str(c) : c \in AllContents}
       \cup {Str("main of " \o c) : c \in AllContents}
       \cup {Str("all of " \o c) : c \in AllContents}
       \cup {Str(Message(x)) : x \in Stages \cup {"cache"}}
json_dumps(d) == [f \in DOMAIN d |-> json_dumps_scalar(d[f])]
json_loads_scalar(t) == CHOOSE x \in JsonScalars : json_dumps_scalar(x) = t
json_loads_Nulls(t) == [f \in DOMAIN t |-> PyNone]
json_loads(t) == [f \in DOMAIN t |-> json_loads_scalar(t[f])]

\* scrape: "if self.cache_service and not options.get('bypass_cache')"
UseCacheIgnoringBypass(options) == cache_service
UseCache(options) ==
    cache_service /\ ~bool(get(options, "bypass_cache", PyNone))

\* the number that an int of the model stands for
Seconds == {0, 1, CACHE_TTL}
int(x) == CHOOSE n \in Seconds : ToString(n) = x.v

\* scrape and cache_result: cache_ttl = options.get('cache_ttl',
\* settings.CACHE_TTL); ttl = timedelta(seconds=cache_ttl);
\* ttl = ttl or self.default_ttl; ex = int(ttl.total_seconds())
ex(options) ==
    LET cache_ttl == get(options, "cache_ttl", PyInt(CACHE_TTL))
    IN  IF bool(cache_ttl) THEN int(cache_ttl) ELSE CACHE_TTL

\* Redis GET: the value under the key, if it has not expired
RedisGet(key) == IF key \in DOMAIN store THEN {store[key].value} ELSE {}
\* Redis SET key value EX seconds: the entry expires once "seconds" have
\* passed; "aged" tells whether any time has passed since the SET
RedisSet(key, value, seconds) ==
    [k \in DOMAIN store \cup {key} |->
        IF k = key THEN [value |-> value, ex |-> seconds, aged |-> FALSE]
        ELSE store[k]]

\* get_cached_result, once connected and with Redis answering: the dict,
\* or nothing (None)
get_cached_result_Miss(url, options) == {}
get_cached_result(url, options) ==
    {json_loads(cached_data) :
        cached_data \in RedisGet(_generate_cache_key(url, options))}

\* what the cache holds after a scrape call failed in its inner try
StoreAfterFailureWritten(p, e) ==
    RedisSet(_generate_cache_key(req[p].url, req[p].options),
             json_dumps(InnerExcept(req[p].url, e).data), CACHE_TTL)
StoreAfterFailure(p, e) == store

CacheInit ==
    /\ cache_service \in BOOLEAN
    /\ redis = IF cache_service THEN "client" ELSE "None"
    /\ store = [k \in {} |-> 0]
    /\ SCRAPE_REQUESTS = 0
    /\ calls_ended = 0
    /\ kpc = [p \in Scrapers |-> "idle"]
    /\ req = [p \in Scrapers |-> NoReq]
    /\ page = [p \in Scrapers |-> NoData]
    /\ redis_up = TRUE
    /\ ret = NoRet

CacheIdle ==
    /\ CacheInit
    /\ cache_service = FALSE

\* the scraper of the cache specification, WebScraper.create(max_concurrent
\* = 1, cache_service = ...): one permit
SizedPoolInit ==
    /\ available_browsers = <<>>
    /\ active_browsers = {}
    /\ lock = Free
    /\ bstate = [b \in Handles |-> "new"]
    /\ semaphore = 1
    /\ spc = [p \in Callers |-> "idle"]
    /\ cur = [p \in Callers |-> NoHandle]
    /\ result = [p \in Callers |-> "none"]
    /\ cpc = "idle"
    /\ csnap = {}

\* scrape ends: r goes to the caller, the locals of the call are gone
Ended(p, r) ==
    /\ ret' = r
    /\ kpc' = [kpc EXCEPT ![p] = "idle"]
    /\ req' = [req EXCEPT ![p] = NoReq]
    /\ page' = [page EXCEPT ![p] = NoData]
    /\ calls_ended' = calls_ended + 1

\* scrape goes on to its next await
GoesOn(p, pos) ==
    /\ kpc' = [kpc EXCEPT ![p] = pos]
    /\ UNCHANGED <<ret, calls_ended, page>>

\* "async with self.semaphore": with a permit left the call takes it and
\* runs on into _get_page_content, with none it waits
Enter(p) ==
    IF semaphore > 0
    THEN /\ semaphore' = semaphore - 1
         /\ GoesOn(p, "fetch")
    ELSE /\ GoesOn(p, "permit")
         /\ UNCHANGED semaphore

\* connect(), called with self.redis None: aioredis.from_url returns a
\* client, or raises when the server cannot be reached
connect_raises == redis = "None" /\ ~redis_up

\* scrape is called with one of the given requests: SCRAPE_REQUESTS.inc(),
\* then the test of the cache
ScrapeCallWith(p, requests) ==
    /\ kpc[p] = "idle"
    /\ SCRAPE_REQUESTS < MaxCalls
    /\ SCRAPE_REQUESTS' = SCRAPE_REQUESTS + 1
    /\ \E r \in requests :
          /\ req' = [req EXCEPT ![p] = r]
          /\ IF UseCache(r.options)
             THEN /\ kpc' = [kpc EXCEPT ![p] = "lookup"]
                  /\ UNCHANGED <<ret, calls_ended, page, semaphore>>
             ELSE /\ Enter(p)
    /\ UNCHANGED <<cache_service, redis, store, redis_up>>
    /\ UNCHANGED notCache

ScrapeCall(p) == ScrapeCallWith(p, CacheRequests)

\* requests for one URL that differ in cache_ttl: none given, or 0, 1 or
\* 86400 seconds
TtlRequests ==
    {[url |-> "https://x.test/a",
      options |-> [NoOptions EXCEPT !["cache_ttl"] = t]] :
        t \in {Absent, PyInt(0), PyInt(1), PyInt(CACHE_TTL)}}
TtlScrapeCall(p) == ScrapeCallWith(p, TtlRequests)

\* "cached_result = await self.cache_service.get_cached_result(url,
\* options)" and the test of what it returned
CacheLookup(p) ==
    /\ kpc[p] = "lookup"
    /\ \/ \* connect() raises, outside the try of get_cached_result:
          \* scrape's outer except logs and re-raises
          /\ connect_raises
          /\ Ended(p, OuterExcept(Raise("cache")))
          /\ UNCHANGED <<redis, semaphore>>
       \/ \* connected, and redis.get raises: logged, None returned
          /\ ~redis_up
          /\ redis' = "client"
          /\ Enter(p)
          /\ UNCHANGED req
       \/ \* connected, and redis.get answers
          /\ redis_up
          /\ redis' = "client"
          /\ LET cached_result ==
                    get_cached_result(req[p].url, req[p].options)
             IN  IF cached_result # {}
                 THEN /\ \E d \in cached_result : Ended(p, CachedReturn(d))
                      /\ UNCHANGED semaphore
                 ELSE /\ Enter(p)
                      /\ UNCHANGED req
    /\ UNCHANGED <<cache_service, store, SCRAPE_REQUESTS,
                   redis_up>>
    /\ UNCHANGED notCache

\* "async with self.semaphore" obtained after a wait
SemaphoreAcquire(p) ==
    /\ kpc[p] = "permit"
    /\ semaphore > 0
    /\ Enter(p)
    /\ UNCHANGED <<cache_service, redis, store, SCRAPE_REQUESTS,
                   req, redis_up>>
    /\ UNCHANGED notCache

\* _get_page_content and _process_page_data are over: one of them raised,
\* and the inner except returns with the permit given back, or
\* processed_data is there
Fetch(p) ==
    /\ kpc[p] = "fetch"
    /\ \/ \E site \in Stages :
             /\ Ended(p, InnerExcept(req[p].url, Raise(site)))
             /\ store' = StoreAfterFailure(p, Raise(site))
             /\ semaphore' = semaphore + 1
       \/ \E content \in Contents(req[p].url) :
             LET data == processed_data(req[p].url, req[p].options, content)
             IN  /\ IF UseCache(req[p].options)
                    THEN /\ kpc' = [kpc EXCEPT ![p] = "store"]
                         /\ page' = [page EXCEPT ![p] = data]
                         /\ UNCHANGED <<ret, req, calls_ended, semaphore>>
                    ELSE /\ Ended(p, FreshReturn(data))
                         /\ semaphore' = semaphore + 1
                 /\ UNCHANGED store
    /\ UNCHANGED <<cache_service, redis, SCRAPE_REQUESTS,
                   redis_up>>
    /\ UNCHANGED notCache

\* "await self.cache_service.cache_result(url, options, processed_data,
\* ttl=...)" is over and scrape returns
CacheStore(p) ==
    /\ kpc[p] = "store"
    /\ \/ \* connect() raises, outside the try of cache_result and inside
          \* scrape's inner try
          /\ connect_raises
          /\ Ended(p, InnerExcept(req[p].url, Raise("cache")))
          /\ UNCHANGED <<redis, store>>
       \/ \* connected, and redis.set raises: logged, False returned
          /\ ~redis_up
          /\ redis' = "client"
          /\ Ended(p, FreshReturn(page[p]))
          /\ UNCHANGED store
       \/ \* connected, and redis.set answers
          /\ redis_up
          /\ redis' = "client"
          /\ store' = RedisSet(_generate_cache_key(req[p].url, req[p].options),
                               json_dumps(page[p]), ex(req[p].options))
          /\ Ended(p, FreshReturn(page[p]))
    /\ semaphore' = semaphore + 1
    /\ UNCHANGED <<cache_service, SCRAPE_REQUESTS, redis_up>>
    /\ UNCHANGED notCache

\* d seconds pass on the Redis server: an entry set for d seconds or less
\* is gone, one set for longer stays if it was new, and stays or goes if
\* time had passed on it before
Tick(d) ==
    /\ store # [k \in {} |-> 0]
    /\ \E gone \in SUBSET {k \in DOMAIN store : store[k].aged} :
          store' = [k \in {x \in DOMAIN store \ gone : store[x].ex > d} |->
                       [store[k] EXCEPT !.aged = TRUE]]
    /\ UNCHANGED <<cache_service, redis, SCRAPE_REQUESTS, calls_ended, kpc,
                   req, page, redis_up, ret, semaphore>>
    /\ UNCHANGED notCache

\* CacheService.disconnect
disconnect ==
    /\ cache_service
    /\ redis = "client"
    /\ redis' = "None"
    /\ UNCHANGED <<cache_service, store, SCRAPE_REQUESTS,
                   calls_ended, kpc, req, page, redis_up, ret, semaphore>>
    /\ UNCHANGED notCache

\* the Redis server goes away or comes back (environment)
RedisOutage ==
    /\ cache_service
    /\ redis_up' = ~redis_up
    /\ UNCHANGED <<cache_service, redis, store, SCRAPE_REQUESTS,
                   calls_ended, kpc, req, page, ret, semaphore>>
    /\ UNCHANGED notCache

NextCache ==
    \/ \E p \in Scrapers : ScrapeCall(p)
    \/ \E p \in Scrapers : CacheLookup(p)
    \/ \E p \in Scrapers : SemaphoreAcquire(p)
    \/ \E p \in Scrapers : Fetch(p)
    \/ \E p \in Scrapers : CacheStore(p)
    \/ \E d \in {1, CACHE_TTL} : Tick(d)
    \/ disconnect
    \/ RedisOutage

\* scrape calls that choose their cache_ttl, on a Redis that stays up
NextTtl ==
    \/ \E p \in Scrapers : TtlScrapeCall(p)
    \/ \E p \in Scrapers : CacheLookup(p)
    \/ \E p \in Scrapers : SemaphoreAcquire(p)
    \/ \E p \in Scrapers : Fetch(p)
    \/ \E p \in Scrapers : CacheStore(p)
    \/ \E d \in {1, CACHE_TTL} : Tick(d)

(***************************************************************************)
(* BrowserContext.navigate and the bot-protection wait                     *)
(***************************************************************************)
\* _get_page_content: "timeout=options.get('timeout', 10)"
Timeouts == {10, 30}

\* browser.get(url): returns, raises TimeoutException (page load timeout),
\* or raises another WebDriverException
LoadOutcomes == {"ok", "timeout", "error"}

\* the exceptions that leave navigate
TimeoutException ==
    [site |-> "navigate",
     msg |-> "Message: timeout: Timed out receiving message from renderer"]
WebDriverException ==
    [site |-> "navigate",
     msg |-> "Message: unknown error: net::ERR_NAME_NOT_RESOLVED"]
\* raise Exception(f"Failed to bypass {bot_detection['type']} challenge")
BypassFailed == Raise("navigate")

Counters ==
    [challenges |-> CLOUDFLARE_CHALLENGES,
     success |-> CLOUDFLARE_BYPASS_SUCCESS,
     failure |-> CLOUDFLARE_BYPASS_FAILURE]

NavIdle ==
    /\ npc = "idle"
    /\ navs = 0
    /\ timeout = 0
    /\ page_load_timeout = 0
    /\ loads = 0
    /\ first_load = "none"
    /\ polls = 0
    /\ CLOUDFLARE_CHALLENGES = 0
    /\ CLOUDFLARE_BYPASS_SUCCESS = 0
    /\ CLOUDFLARE_BYPASS_FAILURE = 0
    /\ before = Counters
    /\ scrape_ret = NoRet

NavInit == NavIdle

\* navigate raised e: _get_page_content releases the browser and the inner
\* except of scrape builds the failure result
NavigateRaises(e) ==
    /\ npc' = "idle"
    /\ scrape_ret' = InnerExcept("", e)

\* the retry after a page-load timeout: twice the timeout
RetryTimeoutSame(t) == t
RetryTimeout(t) == t * 2

\* scrape reaches "await context.navigate(url, timeout=...)": the page load
\* timeout is set and browser.get(url) runs
NavigateLoad ==
    /\ npc = "idle"
    /\ navs < MaxNavs
    /\ navs' = navs + 1
    /\ before' = Counters
    /\ polls' = 0
    /\ loads' = 1
    /\ \E t \in Timeouts, outcome \in LoadOutcomes :
          /\ timeout' = t
          /\ page_load_timeout' = t
          /\ first_load' = outcome
          /\ CASE outcome = "ok" -> npc' = "detect" /\ scrape_ret' = NoRet
               [] outcome = "timeout" -> npc' = "retry" /\ scrape_ret' = NoRet
               [] outcome = "error" -> NavigateRaises(WebDriverException)
    /\ UNCHANGED <<CLOUDFLARE_CHALLENGES, CLOUDFLARE_BYPASS_SUCCESS,
                   CLOUDFLARE_BYPASS_FAILURE>>
    /\ UNCHANGED notNav

\* "except TimeoutException": window.stop(), set_page_load_timeout(timeout
\* * 2), browser.get(url) again; whatever is raised here leaves navigate
NavigateRetry ==
    /\ npc = "retry"
    /\ \/ \* execute_script("window.stop();") raises
          /\ NavigateRaises(WebDriverException)
          /\ UNCHANGED <<page_load_timeout, loads>>
       \/ /\ page_load_timeout' = RetryTimeout(timeout)
          /\ loads' = loads + 1
          /\ \E outcome \in LoadOutcomes :
                CASE outcome = "ok" -> npc' = "detect" /\ UNCHANGED scrape_ret
                  [] outcome = "timeout" -> NavigateRaises(TimeoutException)
                  [] outcome = "error" -> NavigateRaises(WebDriverException)
    /\ UNCHANGED <<navs, timeout, first_load, polls, CLOUDFLARE_CHALLENGES,
                   CLOUDFLARE_BYPASS_SUCCESS, CLOUDFLARE_BYPASS_FAILURE,
                   before>>
    /\ UNCHANGED notNav

\* detect_bot_protection after a load (its own errors count as "nothing
\* detected"); on a detection CLOUDFLARE_CHALLENGES.inc() and the wait begins
DetectBotProtection ==
    /\ npc = "detect"
    /\ \E detected \in BOOLEAN :
          IF detected
          THEN /\ CLOUDFLARE_CHALLENGES' = CLOUDFLARE_CHALLENGES + 1
               /\ npc' = "wait"
          ELSE /\ npc' = "network_idle"
               /\ UNCHANGED CLOUDFLARE_CHALLENGES
    /\ UNCHANGED <<navs, timeout, page_load_timeout, loads, first_load, polls,
                   CLOUDFLARE_BYPASS_SUCCESS, CLOUDFLARE_BYPASS_FAILURE,
                   before, scrape_ret>>
    /\ UNCHANGED notNav

\* wait_for_challenge_completion returned False: the failure is counted
\* and navigate raises
ChallengeNotCounted == CLOUDFLARE_BYPASS_FAILURE
ChallengeFailed == CLOUDFLARE_BYPASS_FAILURE + 1

\* wait_for_challenge_completion: one pass of "while time.time() -
\* start_time < timeout".  The poll finds no challenge (success), or the
\* challenge is there and solve_challenge raises (failure), or the sleeps
\* are over with the time used up (failure) or with time left (next pass).
WaitForChallengePoll ==
    /\ npc = "wait"
    /\ \/ /\ CLOUDFLARE_BYPASS_SUCCESS' = CLOUDFLARE_BYPASS_SUCCESS + 1
          /\ npc' = "network_idle"
          /\ UNCHANGED <<CLOUDFLARE_BYPASS_FAILURE, polls, scrape_ret>>
       \/ /\ CLOUDFLARE_BYPASS_FAILURE' = ChallengeFailed
          /\ NavigateRaises(BypassFailed)
          /\ UNCHANGED <<CLOUDFLARE_BYPASS_SUCCESS, polls>>
       \/ /\ polls + 1 < MaxPolls
          /\ polls' = polls + 1
          /\ UNCHANGED <<npc, CLOUDFLARE_BYPASS_SUCCESS,
                         CLOUDFLARE_BYPASS_FAILURE, scrape_ret>>
    /\ UNCHANGED <<navs, timeout, page_load_timeout, loads, first_load,
                   CLOUDFLARE_CHALLENGES, before>>
    /\ UNCHANGED notNav

\* _wait_for_network_idle (errors swallowed) ends navigate; the rest of
\* _get_page_content and _process_page_data then succeeds or raises
NavigateReturns ==
    /\ npc = "network_idle"
    /\ npc' = "idle"
    /\ \/ scrape_ret' = FreshReturn(processed_data("", NoOptions, "page"))
       \/ scrape_ret' = InnerExcept("", Raise("capture"))
    /\ UNCHANGED <<navs, timeout, page_load_timeout, loads, first_load, polls,
                   CLOUDFLARE_CHALLENGES, CLOUDFLARE_BYPASS_SUCCESS,
                   CLOUDFLARE_BYPASS_FAILURE, before>>
    /\ UNCHANGED notNav

NextNav ==
    \/ NavigateLoad
    \/ NavigateRetry
    \/ DetectBotProtection
    \/ WaitForChallengePoll
    \/ NavigateReturns

(***************************************************************************)
(* Language of a page: ContentExtractor and StructuredDataExtractor        *)
(***************************************************************************)
\* An attribute value is the sequence of the parts that "-" or "_" separate
\* in it: <<"en", "US">> is "en-US" or "en_US", <<"">> is the empty string
\* and << >> stands for a tag or an attribute that is not there (None).
NoAttr == << >>
HtmlLangs == {NoAttr, <<"">>, <<"en">>, <<"en", "US">>, <<"", "US">>}
MetaContents == {NoAttr, <<"fr", "FR">>, <<"", "XX">>}

RECURSIVE Join(_, _)
\* sep.join(parts)
Join(parts, sep) ==
    IF Len(parts) = 1 THEN parts[1]
    ELSE parts[1] \o sep \o Join(Tail(parts), sep)

\* tag.get(attr): None, or the string
Attr(parts, sep) == IF parts = NoAttr THEN PyNone ELSE Str(Join(parts, sep))
\* value.split(sep)[0]
FirstPart(parts) == Str(parts[1])

\* the pages: <html lang>, <meta http-equiv="content-language">,
\* <meta name="language">, <meta property="og:locale">
Soups ==
    [html_lang : HtmlLangs, content_language : MetaContents,
     name_language : MetaContents, og_locale : MetaContents]
NoSoup ==
    [html_lang |-> NoAttr, content_language |-> NoAttr,
     name_language |-> NoAttr, og_locale |-> NoAttr]

\* StructuredDataExtractor._extract_language
_extract_language(doc) ==
    IF bool(Attr(doc.html_lang, "-"))
    THEN FirstPart(doc.html_lang)
    ELSE IF bool(Attr(doc.content_language, "_"))
            /\ bool(FirstPart(doc.content_language))
    THEN FirstPart(doc.content_language)
    ELSE IF bool(Attr(doc.name_language, "_"))
            /\ bool(FirstPart(doc.name_language))
    THEN FirstPart(doc.name_language)
    ELSE IF bool(Attr(doc.og_locale, "_"))
            /\ bool(FirstPart(doc.og_locale))
    THEN FirstPart(doc.og_locale)
    ELSE Str("")

\* x or y
Or(x, y) == IF bool(x) THEN x ELSE y

\* extract_meta_data: "meta_data['language'] = self._extract_language(soup)
\* or ''" (and '' again when something raised)
extract_meta_data(doc) == [language |-> Or(_extract_language(doc), Str(""))]

\* ContentExtractor._extract_metadata: the 'language' key is set only "if
\* html_tag and html_tag.get('lang')"; Absent is a key that is not set
_extract_metadata(doc) ==
    [language |-> IF bool(Attr(doc.html_lang, "-"))
                  THEN Attr(doc.html_lang, "-") ELSE Absent]

\* _process_page_data: metadata = {..., 'language': None, ...}, then
\* "metadata.update(processed_content['metadata'])"
process_metadata(doc) ==
    [language |-> IF _extract_metadata(doc).language = Absent
                  THEN PyNone ELSE _extract_metadata(doc).language]

MetaIdle ==
    /\ mpc = "idle"
    /\ soup = NoSoup
    /\ metadata = [language |-> PyNone]
    /\ metaData = [language |-> PyNone]

MetaInit ==
    /\ mpc = "call"
    /\ soup \in Soups
    /\ metadata = [language |-> PyNone]
    /\ metaData = [language |-> PyNone]

\* _process_page_data of a scrape that succeeds: extract_content and
\* extract_all have run and the data dict is built
ProcessPageData ==
    /\ mpc = "call"
    /\ metadata' = process_metadata(soup)
    /\ metaData' = extract_meta_data(soup)
    /\ mpc' = "returned"
    /\ UNCHANGED soup
    /\ UNCHANGED notMeta

NextMeta == ProcessPageData

(***************************************************************************)
(* EnhancedBotDetectionHandler.wait_for_challenge_completion               *)
(***************************************************************************)
\* the protection systems detect_bot_protection tells apart (two of five)
Types == {"cloudflare", "datadome"}
NoType == "None"

\* "if solve_attempts < 5"
MaxSolveAttempts == 5

\* detect_bot_protection returns detection_result: a protection system
\* scored above the threshold; or none did; or reading the page raised
\* (browser.title on a dead browser) and the except branch returned the
\* result as initialised, detected False.  "inspected" tells the last two
\* apart; the caller cannot.
Found(t) == [detected |-> TRUE, type |-> t, inspected |-> TRUE]
NothingFound == [detected |-> FALSE, type |-> NoType, inspected |-> TRUE]
DetectionErrored == [detected |-> FALSE, type |-> NoType, inspected |-> FALSE]
detect_bot_protection ==
    {Found(t) : t \in Types} \cup {NothingFound, DetectionErrored}

NoDetection == [detected |-> FALSE, type |-> NoType, inspected |-> FALSE]

WaitIdle ==
    /\ wpc = "idle"
    /\ solve_attempts = 0
    /\ last_detection = NoType
    /\ detection = NoDetection
    /\ attempts = [t \in Types |-> 0]
    /\ wpolls = 0
    /\ wret = "none"

\* the call is made: start_time, solve_attempts = 0, last_detection = None
WaitInit ==
    /\ wpc = "poll"
    /\ solve_attempts = 0
    /\ last_detection = NoType
    /\ detection = NoDetection
    /\ attempts = [t \in Types |-> 0]
    /\ wpolls = 0
    /\ wret = "none"

\* "if last_detection and last_detection.get('type') != detection.get(
\* 'type'): solve_attempts = 0"
AttemptsAfterDetection(d) ==
    IF last_detection # NoType /\ last_detection # d.type
    THEN 0 ELSE solve_attempts

\* one pass of the loop with time left, up to the await of solve_challenge
\* or of the sleep that ends the pass
WaitDetect ==
    /\ wpc = "poll"
    /\ wpolls < MaxWaitPolls
    /\ \E d \in detect_bot_protection :
          /\ detection' = d
          /\ IF ~d.detected
             THEN \* CLOUDFLARE_BYPASS_SUCCESS.inc(); return True
                  /\ CLOUDFLARE_BYPASS_SUCCESS' = CLOUDFLARE_BYPASS_SUCCESS + 1
                  /\ wret' = "True"
                  /\ wpc' = "returned"
                  /\ UNCHANGED <<solve_attempts, last_detection, wpolls>>
             ELSE /\ solve_attempts' = AttemptsAfterDetection(d)
                  /\ last_detection' = d.type
                  /\ IF AttemptsAfterDetection(d) < MaxSolveAttempts
                     THEN wpc' = "solve" /\ UNCHANGED wpolls
                     ELSE wpc' = "poll" /\ wpolls' = wpolls + 1
                  /\ UNCHANGED <<CLOUDFLARE_BYPASS_SUCCESS, wret>>
    /\ UNCHANGED <<attempts, CLOUDFLARE_BYPASS_FAILURE>>
    /\ UNCHANGED <<npc, navs, timeout, page_load_timeout, loads, first_load,
                   polls, CLOUDFLARE_CHALLENGES, before, scrape_ret>>
    /\ UNCHANGED notWait

\* "success = await self.solve_challenge(browser, detection.get('type'))"
\* returns (the solvers swallow their errors); solve_attempts += 1; sleeps
WaitSolve ==
    /\ wpc = "solve"
    /\ attempts' = [attempts EXCEPT ![detection.type] = @ + 1]
    /\ solve_attempts' = solve_attempts + 1
    /\ wpolls' = wpolls + 1
    /\ wpc' = "poll"
    /\ UNCHANGED <<last_detection, detection, wret,
                   CLOUDFLARE_BYPASS_SUCCESS, CLOUDFLARE_BYPASS_FAILURE>>
    /\ UNCHANGED <<npc, navs, timeout, page_load_timeout, loads, first_load,
                   polls, CLOUDFLARE_CHALLENGES, before, scrape_ret>>
    /\ UNCHANGED notWait

\* the loop test finds the timeout used up: CLOUDFLARE_BYPASS_FAILURE.inc();
\* return False
WaitTimeout ==
    /\ wpc = "poll"
    /\ wpolls >= 1
    /\ CLOUDFLARE_BYPASS_FAILURE' = CLOUDFLARE_BYPASS_FAILURE + 1
    /\ wret' = "False"
    /\ wpc' = "returned"
    /\ UNCHANGED <<solve_attempts, last_detection, detection, attempts,
                   wpolls, CLOUDFLARE_BYPASS_SUCCESS>>
    /\ UNCHANGED <<npc, navs, timeout, page_load_timeout, loads, first_load,
                   polls, CLOUDFLARE_CHALLENGES, before, scrape_ret>>
    /\ UNCHANGED notWait

NextWait ==
    \/ WaitDetect
    \/ WaitSolve
    \/ WaitTimeout

(***************************************************************************)
(* CrawlerService.start_crawl                                              *)
(***************************************************************************)
\* no crawl registered
BgIdle == active_crawls = << >>

\* request.crawl_id
CrawlId == "crawl"

\* start_crawl: the CrawlerResponse it builds
NewResponse ==
    [status |-> "in_progress", pages |-> <<>>,
     stats |-> [total_pages |-> 0, success_count |-> 0, failed_count |-> 0,
                skipped_count |-> 0]]

\* start_crawl, called once: the response is registered under the crawl id,
\* the task that runs crawl_sync(request) is created, the response is
\* returned
StartCrawl ==
    /\ active_crawls = << >>
    /\ active_crawls' = (CrawlId :> NewResponse)
    /\ UNCHANGED <<qmVars, crawlVars>>
    /\ UNCHANGED notBg

\* the task created by start_crawl runs crawl_sync
BgCrawl == active_crawls # << >> /\ Next

NextBg ==
    \/ StartCrawl
    \/ BgCrawl

(***************************************************************************)
(* Specifications                                                          *)
(***************************************************************************)
\* no scrape call and no cleanup under way, nothing in the pool
PoolIdle == PoolInit

\* a QueueManager that nobody drives
QMIdle ==
    /\ QMInit
    /\ max_depth = 1
    /\ max_pages = 1

Init ==
    /\ PoolIdle /\ QMInit /\ RequestInit /\ CrawlIdle
    /\ CacheIdle /\ KeyIdle /\ LinkIdle /\ NavIdle /\ MetaIdle
    /\ WaitIdle /\ BgIdle
InitPool ==
    /\ PoolInit /\ QMIdle /\ NoRequest /\ CrawlIdle
    /\ CacheIdle /\ KeyIdle /\ LinkIdle /\ NavIdle /\ MetaIdle
    /\ WaitIdle /\ BgIdle
InitQM ==
    /\ PoolIdle /\ QMInit /\ NoRequest /\ CrawlIdle
    /\ CacheIdle /\ KeyIdle /\ LinkIdle /\ NavIdle /\ MetaIdle
    /\ WaitIdle /\ BgIdle
InitCache ==
    /\ SizedPoolInit /\ QMIdle /\ NoRequest /\ CrawlIdle
    /\ CacheInit /\ KeyIdle /\ LinkIdle /\ NavIdle /\ MetaIdle
    /\ WaitIdle /\ BgIdle
InitKey ==
    /\ PoolIdle /\ QMIdle /\ NoRequest /\ CrawlIdle
    /\ CacheIdle /\ KeyInit /\ LinkIdle /\ NavIdle /\ MetaIdle
    /\ WaitIdle /\ BgIdle

\* one crawl_sync call
Spec == Init /\ [][Next]_vars
\* the same, with every coroutine that can run eventually running (the
\* asyncio event loop is fair and every scrape call returns)
FairSpec == Spec /\ WF_vars(Next)
\* one crawl_sync call on the site of seven pages
InitSite ==
    /\ PoolIdle /\ SiteCrawlInit
    /\ CacheIdle /\ KeyIdle /\ LinkIdle /\ NavIdle /\ MetaIdle
    /\ WaitIdle /\ BgIdle
SpecSite == InitSite /\ [][NextSite]_vars
\* one start_crawl call and the crawl_sync task it creates
SpecBg == Init /\ [][NextBg]_vars
\* the same, the event loop running the created task
FairSpecBg == SpecBg /\ WF_vars(NextBg)
\* one crawl_sync call whose request may reject the seed
InitSeed ==
    /\ PoolIdle /\ QMInit /\ SeedRequestInit /\ CrawlIdle
    /\ CacheIdle /\ KeyIdle /\ LinkIdle /\ NavIdle /\ MetaIdle
    /\ WaitIdle /\ BgIdle
SpecSeed == InitSeed /\ [][Next]_vars
\* one crawl_sync call that its owner may cancel
SpecCancel == Init /\ [][NextCancel]_vars
\* scrape calls and cleanup on one BrowserPool
SpecPool == InitPool /\ [][NextPool]_vars

\* The event loop runs every coroutine that is ready; asyncio.Semaphore and
\* asyncio.Lock wake their waiters in FIFO order, so a call that waits for
\* a permit or for the pool lock gets it once it is released often enough;
\* a started cleanup ends.  Crashes and new cleanup calls are up to the
\* environment.  A call makes finitely many steps, so fairness to the calls
\* taken together asks no more than fairness to each coroutine.
WaitingStep ==
    \E p \in Callers : ScrapeStart(p) \/ GetLock(p) \/ ReleaseLock(p)
RunningStep ==
    \E p \in Callers :
        \/ GetHealth(p) \/ GetQuit(p) \/ UseBrowser(p)
        \/ ReleaseHealth(p) \/ ReleaseQuit(p) \/ ScrapeReturn(p)
PoolFairness ==
    /\ SF_vars(WaitingStep)
    /\ WF_vars(RunningStep)
    /\ WF_vars(CleanupDone)
FairSpecPool == SpecPool /\ PoolFairness
\* the QueueManager API
SpecQM == InitQM /\ [][NextQM]_vars
\* scrape calls on a WebScraper made with a CacheService, or with none
SpecCache == InitCache /\ [][NextCache]_vars
\* scrape calls that differ in cache_ttl
SpecTtl == InitCache /\ [][NextTtl]_vars
\* _generate_cache_key on two requests
SpecKey == InitKey /\ [][NextKey]_vars

InitLinks ==
    /\ PoolIdle /\ QMIdle /\ RequestInit /\ CrawlIdle
    /\ CacheIdle /\ KeyIdle /\ LinkInit /\ NavIdle /\ MetaIdle
    /\ WaitIdle /\ BgIdle
SpecLinks == InitLinks /\ [][NextLinks]_vars

InitNav ==
    /\ PoolIdle /\ QMIdle /\ NoRequest /\ CrawlIdle
    /\ CacheIdle /\ KeyIdle /\ LinkIdle /\ NavInit /\ MetaIdle
    /\ WaitIdle /\ BgIdle
SpecNav == InitNav /\ [][NextNav]_vars

InitMeta ==
    /\ PoolIdle /\ QMIdle /\ NoRequest /\ CrawlIdle
    /\ CacheIdle /\ KeyIdle /\ LinkIdle /\ NavIdle /\ MetaInit
    /\ WaitIdle /\ BgIdle
SpecMeta == InitMeta /\ [][NextMeta]_vars

\* one wait_for_challenge_completion call
InitWait ==
    /\ PoolIdle /\ QMIdle /\ NoRequest /\ CrawlIdle
    /\ CacheIdle /\ KeyIdle /\ LinkIdle /\ NavIdle /\ MetaIdle
    /\ WaitInit /\ BgIdle
SpecWait == InitWait /\ [][NextWait]_vars

(***************************************************************************)
(* Claims about the BrowserPool                                            *)
(***************************************************************************)
InAvailable(b) == b \in Range(available_browsers)
InActive(b) == b \in active_browsers
\* created by the pool and not quit
Live(b) == bstate[b] \in {"ok", "sick"}

\* C1: in every reachable pool state, under any interleaving of get_browser,
\* release_browser and cleanup, len(available_browsers) +
\* len(active_browsers) <= max_browsers.
C1_PoolBounded ==
    Len(available_browsers) + Cardinality(active_browsers) <= max_browsers

\* the pool is full with one browser parked and the others handed out
C1_Witness ==
    /\ Len(available_browsers) = 1
    /\ Len(available_browsers) + Cardinality(active_browsers) = max_browsers
    /\ \E p \in Callers : spc[p] = "using"

\* C2: whenever the pool lock is not held, no handle is in both collections,
\* every handle created and not quit is in exactly one of them, and every
\* handle the pool has quit is in neither.
C2_PoolPartition ==
    lock = Free =>
        /\ Cardinality(Range(available_browsers)) = Len(available_browsers)
        /\ \A b \in Handles :
              /\ ~(InAvailable(b) /\ InActive(b))
              /\ Live(b) => (InAvailable(b) # InActive(b))
              /\ bstate[b] = "quit" => ~InAvailable(b) /\ ~InActive(b)

\* lock free with one handle parked, one handed out and one quit
C2_Witness ==
    /\ lock = Free
    /\ \E b1, b2, b3 \in Handles :
          /\ InAvailable(b1) /\ Live(b1)
          /\ InActive(b2) /\ Live(b2)
          /\ bstate[b3] = "quit"

\* C3: once every scrape call has returned, no browser taken from the pool
\* remains in active_browsers.
C3_ReleasedOnAllPaths ==
    (\A p \in Callers : spc[p] \in {"idle", "done"}) => active_browsers = {}

(***************************************************************************)
(* Claims about the crawler and its frontier                               *)
(***************************************************************************)
RECURSIVE SumOver(_, _)
SumOver(f, S) ==
    IF S = {} THEN 0
    ELSE LET x == CHOOSE y \in S : TRUE IN f[x] + SumOver(f, S \ {x})

\* scrape calls made so far in the crawl
ScrapesMade == SumOver(scrape_count, URLs)

\* C4: crawl_sync terminates: provided every scrape call returns, the driver
\* loop exits and the response gets a terminal status.
C4_CrawlTerminates == <>(dpc = "done" /\ status = "completed")

\* a crawl over several pages has come to its end
C4_Witness ==
    /\ dpc = "done"
    /\ status = "completed"
    /\ ScrapesMade >= 2
    /\ queue = <<>>

\* C5: every page of the response has depth <= max_depth and the host of
\* the request URL.
C5_PagesInScope ==
    \A i \in 1..Len(pages) :
        /\ pages[i].depth <= max_depth
        /\ netloc(pages[i].url) = netloc(SeedUrl)

\* a page at the depth limit is stored after a page linked to another host
C5_Witness ==
    /\ offsite_offered
    /\ \E i \in 1..Len(pages) :
          pages[i].depth = max_depth /\ pages[i].url # SeedUrl

\* C6: the number of URLs handed to the scraper never exceeds max_pages, so
\* len(response.pages) <= max_pages; with max_pages = 1 exactly the seed is
\* scraped, once.
C6_ScrapeBudget ==
    /\ ScrapesMade <= max_pages
    /\ Len(pages) <= max_pages
    /\ (max_pages = 1 /\ dpc = "done") =>
          scrape_count = [u \in URLs |-> IF u = SeedUrl THEN 1 ELSE 0]

\* with max_pages = 1 the seed has been scraped and one of its links refused
C6_Witness ==
    /\ max_pages = 1
    /\ scrape_count[SeedUrl] = 1
    /\ \E i \in Slots : tpc[i] = "links" /\ clock = i
    /\ last.op = "add_url"
    /\ ~last.ret

\* C7: add_url(url, depth) admits iff url is not in seen_urls, depth <=
\* max_depth and len(seen_urls) < max_pages; on admission url joins
\* seen_urls, url_depths[url] = depth, url goes to the tail of the queue and
\* True is returned; otherwise False is returned and seen_urls, url_depths,
\* the queue and in_progress stay as they are.
C7_AddUrlContract ==
    [][last'.op = "add_url" =>
          LET u == last'.url
              d == last'.depth
              admit == /\ u \notin seen_urls
                       /\ d <= max_depth
                       /\ Cardinality(seen_urls) < max_pages
          IN  /\ last'.ret = admit
              /\ in_progress' = in_progress
              /\ IF admit
                 THEN /\ seen_urls' = seen_urls \cup {u}
                      /\ u \in DOMAIN url_depths'
                      /\ url_depths'[u] = d
                      /\ \A v \in DOMAIN url_depths :
                            v # u => /\ v \in DOMAIN url_depths'
                                     /\ url_depths'[v] = url_depths[v]
                      /\ queue' = queue \o <<u>>
                 ELSE /\ seen_urls' = seen_urls
                      /\ url_depths' = url_depths
                      /\ queue' = queue
      ]_vars

\* a URL has been admitted at the depth limit behind another queued URL
C7_Witness ==
    /\ last.op = "add_url"
    /\ last.ret
    /\ last.depth = max_depth
    /\ Len(queue) >= 2
    /\ queue[Len(queue)] = last.url

C9_SeenSuperset ==
    (Range(queue) \cup in_progress \cup completed) \subseteq seen_urls

\* URLs are queued, in progress and completed at the same time
C9_Witness ==
    /\ queue # <<>>
    /\ in_progress # {}
    /\ completed # {}

\* C10: success_count + failed_count + skipped_count <= |seen_urls|
\* throughout, and on completion total_pages = len(pages) = success_count.
C10_StatsConsistent ==
    /\ stats.success_count + stats.failed_count + stats.skipped_count
          <= Cardinality(seen_urls)
    /\ status = "completed" =>
          /\ stats.total_pages = Len(pages)
          /\ Len(pages) = stats.success_count

\* a completed crawl with both stored and failed pages
C10_Witness ==
    /\ status = "completed"
    /\ stats.success_count >= 1
    /\ stats.failed_count >= 1
    /\ Cardinality(seen_urls) > stats.success_count

(***************************************************************************)
(* Claims about failures                                                   *)
(***************************************************************************)
\* C11: a page that fails (scrape reports success=False, or an exception is
\* raised while the page is processed) adds exactly one to
\* stats.failed_count and leaves the driver, the frontier and the crawl
\* status alone; the crawl status is never failed, and the crawl ends
\* completed only once the frontier is drained or the page limit is reached.
C11_PageFailureIsolated ==
    /\ [](status # "failed")
    /\ [](dpc = "done" =>
            /\ status = "completed"
            /\ (queue = <<>> /\ in_progress = {}) \/ Len(pages) >= max_pages)
    /\ [][\A i \in Slots :
             (tpc[i] = "failed" /\ tpc'[i] # "failed") =>
                /\ stats'.failed_count = stats.failed_count + 1
                /\ stats'.success_count = stats.success_count
                /\ tpc'[i] = "complete"
                /\ dpc' = dpc
                /\ status' = status
                /\ queue' = queue
                /\ pages' = pages]_vars

\* a crawl that ended completed with a failed page and pages crawled from
\* links found at depth 1 or deeper
C11_Witness ==
    /\ dpc = "done"
    /\ status = "completed"
    /\ stats.failed_count >= 1
    /\ \E k \in 1..Len(pages) : pages[k].depth >= 1
    /\ \E u \in URLs : scrape_count[u] = 1 /\ \A k \in 1..Len(pages) : pages[k].url # u

\* C12: a scrape call in which browser acquisition, navigation, capture or
\* post-processing raised does not raise to its caller: it returns a result
\* with success=False whose metadata has status code 500 and a non-empty
\* error text, and whose warning is that text.
C12_FailureReturned ==
    ret.site \in Stages =>
       /\ ret.kind = "returned"
       /\ ret.success = FALSE
       /\ ret.data.statusCode = PyInt(500)
       /\ ret.data.error.py = "str" /\ ret.data.error.v # ""
       /\ ret.data.warning = ret.data.error

\* one call failed in each of the four stages, with and without a cache
C12_Witness ==
    /\ ret.site = "navigate"
    /\ ret.kind = "returned"
    /\ calls_ended >= 2
    /\ cache_service

(***************************************************************************)
(* Claims about the cache                                                  *)
(***************************************************************************)
KeyOf(r) == _generate_cache_key(r.url, r.options)
Bypassed(r) == bool(get(r.options, "bypass_cache", PyNone))
\* call p takes a step
Steps(p) == kpc'[p] # kpc[p]
Ends(p) == kpc[p] # "idle" /\ kpc'[p] = "idle"
InFlight == Cardinality({p \in Scrapers : kpc[p] # "idle"})

\* C13: with a cache, bypass_cache false, Redis answering and an entry under
\* the request's key, the lookup ends the call with cached=True and the
\* stored data, the semaphore untouched, whatever permits are left; every
\* call, a cache hit too, has added exactly one to scraper_requests_total.
C13_HitNeedsNoPermit ==
    /\ [](SCRAPE_REQUESTS = calls_ended + InFlight)
    /\ [][\A p \in Scrapers :
             (/\ kpc[p] = "lookup"
              /\ Steps(p)
              /\ redis_up
              /\ KeyOf(req[p]) \in DOMAIN store) =>
                /\ Ends(p)
                /\ ret' = CachedReturn(json_loads(store[KeyOf(req[p])].value))
                /\ semaphore' = semaphore
                /\ SCRAPE_REQUESTS' = SCRAPE_REQUESTS
                /\ store' = store]_vars

\* a call was served from the cache while another call holds the only
\* permit
C13_Witness ==
    /\ ret.cached
    /\ semaphore = 0
    /\ \E p \in Scrapers : kpc[p] = "fetch"
    /\ SCRAPE_REQUESTS = MaxCalls

SameFingerprintInputs(a, b) ==
    /\ a.url = b.url
    /\ get(a.options, "only_main", PyTrue) = get(b.options, "only_main", PyTrue)
    /\ get(a.options, "wait_for_selector", PyNone)
          = get(b.options, "wait_for_selector", PyNone)
    /\ get(a.options, "mobile", PyFalse) = get(b.options, "mobile", PyFalse)
    /\ get(a.options, "include_screenshot", PyFalse)
          = get(b.options, "include_screenshot", PyFalse)
    /\ get(a.options, "include_raw_html", PyFalse)
          = get(b.options, "include_raw_html", PyFalse)
C15_KeyOfRelevantOptionsOnly ==
    (keyA # "" /\ keyB # "") =>
       (keyA = keyB <=> SameFingerprintInputs(reqA, reqB))

\* two requests that differ in an option outside the five share their key
C15_Witness ==
    /\ keyA # ""
    /\ keyA = keyB
    /\ reqA # reqB
    /\ \A k \in RelevantKeys : reqA.options[k] = reqB.options[k]

\* C16: no step of a scrape call made with bypass_cache=True changes the
\* cache, the call never waits for the cache, and what it returns is not
\* marked cached.
C16_BypassLeavesCacheAlone ==
    [][\A p \in Scrapers :
          LET r == IF kpc[p] = "idle" THEN req'[p] ELSE req[p]
          IN  (Steps(p) /\ Bypassed(r)) =>
                 /\ store' = store
                 /\ kpc'[p] \notin {"lookup", "store"}
                 /\ Ends(p) => ~ret'.cached]_vars

\* a call that bypasses the cache fetches a page whose key the cache holds
C16_Witness ==
    \E p \in Scrapers :
       /\ kpc[p] = "fetch"
       /\ Bypassed(req[p])
       /\ KeyOf(req[p]) \in DOMAIN store

\* C17: every entry of the cache is the data of a successful scrape, it was
\* put there by the step in which a call returned success=True, and a call
\* that returns success=False leaves the cache as it was.
C17_OnlySuccessCached ==
    /\ [](\A k \in DOMAIN store :
             LET d == json_loads(store[k].value)
             IN  /\ d.statusCode = PyInt(200)
                 /\ d.error = PyNone
                 /\ d.markdown # PyNone)
    /\ [][\A p \in Scrapers :
             /\ (Ends(p) /\ ~ret'.success) => store' = store
             /\ (/\ Steps(p)
                 /\ \E k \in DOMAIN store' :
                       \/ k \notin DOMAIN store
                       \/ store'[k].value # store[k].value
                       \/ store[k].aged /\ ~store'[k].aged) =>
                   /\ Ends(p)
                   /\ ret'.success
                   /\ ~ret'.cached]_vars

\* a call has failed after a page was cached
C17_Witness ==
    /\ ret.kind = "returned"
    /\ ~ret.success
    /\ store # [k \in {} |-> 0]

C19_PoolNeverExhausted ==
    /\ [](Cardinality(active_browsers) <= max_browsers)
    /\ [][\A p \in Callers :
             spc[p] \in {"get", "g_quit"} /\ spc'[p] = "done" => CanCreate]_vars

\* C20: under a fair event loop every concurrent scrape call returns: from
\* some point on all calls are done, every permit is back in the semaphore
\* and no call holds the pool lock.
C20_EveryCallReturns ==
    <>[](/\ \A p \in Callers : spc[p] = "done"
         /\ semaphore = max_browsers
         /\ lock \notin Callers)

\* all permits out, one call holding the pool lock, another waiting for it
\* and a third waiting for a permit
C20_Witness ==
    /\ semaphore = 0
    /\ \E p, q, r \in Callers :
          /\ lock = p
          /\ spc[q] \in {"get", "release"}
          /\ spc[r] = "idle"

(***************************************************************************)
(* Claims about link extraction and the frontier                           *)
(***************************************************************************)
\* the normalized URLs of the links of the page
NormalizedLinks == {[host |-> h.host, path |-> h.path] : h \in links_html}

C22_LinksOnlyBelowMaxDepth ==
    /\ [][\A i \in Slots :
             /\ tpc[i] = "scrape" /\ tpc'[i] = "links" =>
                   tdepth[i] < max_depth
             /\ tlinks'[i] # tlinks[i] /\ tpc[i] = "links" =>
                   /\ tdepth[i] < max_depth
                   /\ last' = [op |-> "add_url",
                               url |-> CHOOSE u \in tlinks[i] :
                                          u \notin tlinks'[i],
                               depth |-> tdepth[i] + 1,
                               ret |-> Len(queue') > Len(queue)]]_vars
    /\ [][Len(queue') > Len(queue) =>
             \/ dpc = "start"
             \/ \E i \in Slots :
                   /\ tpc[i] = "links" /\ tdepth[i] < max_depth
                   /\ url_depths'[Last(queue')] = tdepth[i] + 1]_vars
    /\ [](\A i \in Slots : tdepth[i] >= max_depth => tlinks[i] = {})
    /\ [](max_depth = 1 =>
             \A u \in seen_urls : u # SeedUrl => url_depths[u] = 1)

\* max_depth = 1: a link of the seed was admitted at depth 1, its page was
\* scraped with success and goes to the pages with no link offered
C22_Witness ==
    /\ max_depth = 1
    /\ \E i \in Slots :
          /\ tpc[i] = "store"
          /\ tdepth[i] = 1
          /\ url_depths[turl[i]] = 1
          /\ tlinks[i] = {}
    /\ \E p \in 1..Len(pages) : pages[p].url = SeedUrl

\* C23: is_complete is true exactly in the states where the queue is empty
\* and in_progress is empty.
C23_IsCompleteExact ==
    is_complete <=> (queue = <<>> /\ in_progress = {})

(***************************************************************************)
(* Claims about navigation                                                 *)
(***************************************************************************)
\* a navigation was made and its scrape has returned
NavOver == npc = "idle" /\ navs > 0
Populated(x) == x.py = "str" /\ x.v # ""

\* C24: navigate loads the URL at most twice; the second load is made only
\* after the first raised a page-load timeout, with twice the timeout; if
\* the retry goes through (and nothing later fails) the scrape returns
\* success=true with warning null, and if the retry fails the scrape
\* returns success=false with error and warning populated.
C24_OneRetryDoubledTimeout ==
    /\ loads <= 2
    /\ loads = 2 =>
          /\ first_load = "timeout"
          /\ page_load_timeout = timeout + timeout
    /\ NavOver /\ first_load = "timeout" =>
          /\ scrape_ret.kind = "returned"
          /\ scrape_ret.site = "" =>
                /\ loads = 2
                /\ scrape_ret.success
                /\ scrape_ret.data.warning = PyNone
          /\ scrape_ret.site = "navigate" =>
                /\ ~scrape_ret.success
                /\ Populated(scrape_ret.data.error)
                /\ Populated(scrape_ret.data.warning)

\* the first load timed out, the second went through and the scrape
\* succeeded
C24_Witness ==
    /\ NavOver
    /\ first_load = "timeout"
    /\ loads = 2
    /\ page_load_timeout = 2 * timeout
    /\ scrape_ret.success
    /\ scrape_ret.data.warning = PyNone

\* what this navigation added to the three counters
Challenges == CLOUDFLARE_CHALLENGES - before.challenges
BypassSuccess == CLOUDFLARE_BYPASS_SUCCESS - before.success
BypassFailure == CLOUDFLARE_BYPASS_FAILURE - before.failure

\* C25: a navigation in which a challenge is detected adds exactly 1 to
\* cloudflare_challenges_total and exactly 1 to one of
\* cloudflare_bypass_success_total and cloudflare_bypass_failure_total:
\* to success when a poll finds no challenge, and the scrape goes on; to
\* failure when the wait gives up, and the scrape returns success=false
\* with a non-empty error.
C25_ChallengeCountedOnce ==
    /\ Challenges \in {0, 1}
    /\ BypassSuccess >= 0 /\ BypassFailure >= 0
    /\ BypassSuccess + BypassFailure <= Challenges
    /\ npc = "wait" <=>
          navs > 0 /\ Challenges = 1 /\ BypassSuccess + BypassFailure = 0
    /\ NavOver /\ Challenges = 1 =>
          /\ BypassSuccess + BypassFailure = 1
          /\ BypassSuccess = 1 => scrape_ret.site # "navigate"
          /\ BypassFailure = 1 =>
                /\ scrape_ret.kind = "returned"
                /\ ~scrape_ret.success
                /\ Populated(scrape_ret.data.error)

\* two navigations met a challenge: one gave up, the other got through
\* and its scrape succeeded
C25_Witness ==
    /\ NavOver
    /\ CLOUDFLARE_CHALLENGES = 2
    /\ CLOUDFLARE_BYPASS_FAILURE = 1
    /\ CLOUDFLARE_BYPASS_SUCCESS = 1
    /\ BypassSuccess = 1
    /\ polls > 0
    /\ scrape_ret.success

(***************************************************************************)
(* Claims about cancellation                                               *)
(***************************************************************************)
\* C26: once a crawl is cancelled the next dequeue returns none (the queue
\* gives nothing more), the page tasks in flight finish, and the partial
\* response comes back with status cancelled.
C26_CancelReturnsPartial ==
    dpc = "cancelled" =>
        /\ queue = <<>>
        /\ (\A i \in Slots : tpc[i] \in {"free", "finished"}) =>
              status = "cancelled"

(***************************************************************************)
(* Claims about the language of a page                                     *)
(***************************************************************************)
\* the page declares no language anywhere
NoLanguageDeclared == soup = NoSoup

\* C27: in the result of a successful scrape the language is a string,
\* never null, in the metadata block and in the meta map of the structured
\* data, and it is the empty string when the page declares no language.
C27_LanguageNeverNull ==
    mpc = "returned" =>
        /\ metadata.language.py = "str"
        /\ metaData.language.py = "str"
        /\ NoLanguageDeclared =>
              /\ metadata.language = Str("")
              /\ metaData.language = Str("")

(***************************************************************************)
(* Claims about get_browser and release_browser                            *)
(***************************************************************************)
\* call p of get_browser gets its context in this step
GetsContext(p) == spc[p] # "using" /\ spc'[p] = "using"
\* get_browser of call p is at the top of its loop and takes a step
LoopStep(p) ==
    /\ spc[p] \in {"get", "g_quit"}
    /\ spc'[p] # spc[p]

\* C28: get_browser hands out a context only for a browser it popped from
\* available and found healthy in this call, or for one it created, which
\* it does only with available empty and fewer than max_browsers active; a
\* popped browser that fails the health check is quit and is in neither
\* collection; with available empty and max_browsers active the call raises
\* and leaves both collections as they were.
C28_GetBrowserExact ==
    [][\A p \in Callers :
          /\ spc'[p] = "g_health" /\ spc[p] # "g_health" =>
                /\ available_browsers # <<>>
                /\ cur'[p] = Last(available_browsers)
                /\ available_browsers' = Front(available_browsers)
          /\ GetsContext(p) =>
                \/ /\ spc[p] = "g_health"
                   /\ cur'[p] = cur[p]
                   /\ bstate[cur[p]] = "ok"
                \/ /\ LoopStep(p)
                   /\ available_browsers = <<>>
                   /\ Cardinality(active_browsers) < max_browsers
                   /\ bstate[cur'[p]] = "new"
                   /\ cur'[p] \notin active_browsers
          /\ GetsContext(p) => cur'[p] \in active_browsers'
          /\ spc[p] = "g_health" /\ bstate[cur[p]] # "ok"
                /\ spc'[p] # spc[p] => spc'[p] = "g_quit"
          /\ spc[p] = "g_quit" /\ spc'[p] # spc[p] =>
                /\ bstate'[cur[p]] = "quit"
                /\ cur[p] \notin active_browsers'
                /\ cur[p] \notin Range(available_browsers')
          /\ LoopStep(p) /\ available_browsers = <<>>
                /\ Cardinality(active_browsers) = max_browsers =>
                /\ spc'[p] = "done"
                /\ result'[p] = "failure"
                /\ UNCHANGED <<available_browsers, active_browsers>>
      ]_vars

\* a call uses a browser it took from available after it had popped, quit
\* and dropped an unhealthy one
C28_Witness ==
    \E p \in Callers : \E b \in Handles :
        /\ spc[p] = "using"
        /\ cur[p] \notin {p, b}
        /\ cur[p] \in active_browsers
        /\ bstate[b] = "quit"
        /\ b \notin active_browsers
        /\ b \notin Range(available_browsers)
        /\ cpc = "idle"

\* release_browser of call p takes a step
ReleaseStep(p) ==
    /\ spc[p] \in {"release", "r_health", "r_quit"}
    /\ spc'[p] # spc[p]
\* the browser of call p is in neither collection after the step
InNeitherSet(p) ==
    /\ cur[p] \notin active_browsers'
    /\ cur[p] \notin Range(available_browsers')

\* C29: release_browser leaves the browser of the context out of active; it
\* appends the browser to available exactly when the browser was in active,
\* available held fewer than max_browsers and the health check passed; in
\* every other case the browser is quit and is in neither collection.
C29_ReleaseBrowserExact ==
    [][\A p \in Callers :
          /\ ReleaseStep(p) => cur[p] \notin active_browsers'
          /\ ReleaseStep(p) /\ spc[p] = "release" =>
                /\ spc'[p] = "r_health" <=>
                      /\ cur[p] \in active_browsers
                      /\ Len(available_browsers) < max_browsers
                /\ spc'[p] \in {"r_health", "r_quit"}
                /\ UNCHANGED <<available_browsers, bstate>>
          /\ ReleaseStep(p) /\ spc[p] = "r_health" =>
                IF bstate[cur[p]] = "ok"
                THEN /\ available_browsers' =
                            Append(available_browsers, cur[p])
                     /\ spc'[p] = "released"
                     /\ UNCHANGED bstate
                ELSE /\ spc'[p] = "r_quit"
                     /\ UNCHANGED available_browsers
          /\ ReleaseStep(p) /\ spc[p] = "r_quit" =>
                /\ spc'[p] = "released"
                /\ bstate'[cur[p]] = "quit"
                /\ InNeitherSet(p)
                /\ UNCHANGED available_browsers
          /\ Len(available_browsers') > Len(available_browsers) =>
                \E q \in Callers : ReleaseStep(q) /\ spc[q] = "r_health"
      ]_vars

\* one call has given its healthy browser back to available while another
\* has quit its crashed one, which is in neither collection
C29_Witness ==
    \E p, q \in Callers :
        /\ p # q
        /\ spc[p] = "released"
        /\ available_browsers # <<>>
        /\ cur[p] = Last(available_browsers)
        /\ bstate[cur[p]] = "ok"
        /\ spc[q] = "released"
        /\ bstate[cur[q]] = "quit"
        /\ cur[q] \notin active_browsers
        /\ cur[q] \notin Range(available_browsers)

(***************************************************************************)
(* Claims about get_next_url                                               *)
(***************************************************************************)
\* the step is a call of get_next_url
GetNextUrlStep == last'.op = "get_next_url" /\ vars' # vars

\* C30: get_next_url returns None exactly when the queue is empty and then
\* changes nothing of the frontier; otherwise it takes the URL admitted
\* first among the queued ones, puts it in in_progress and returns it, with
\* seen_urls and url_depths as they were; no URL is queued and in progress
\* at once.
C30_GetNextUrlExact ==
    /\ [][GetNextUrlStep =>
             /\ last'.ret = FALSE <=> queue = <<>>
             /\ queue = <<>> =>
                   /\ last'.url = NoUrl
                   /\ UNCHANGED <<queue, seen_urls, in_progress, url_depths>>
             /\ queue # <<>> =>
                   /\ last'.url = queue[1]
                   /\ queue' = SubSeq(queue, 2, Len(queue))
                   /\ in_progress' = in_progress \cup {queue[1]}
                   /\ UNCHANGED <<seen_urls, url_depths>>
        ]_vars
    /\ [][last'.op = "add_url" /\ last'.ret /\ vars' # vars =>
             queue' = Append(queue, last'.url)
        ]_vars
    /\ [](Range(queue) \cap in_progress = {})

\* get_next_url has returned the URL admitted first while a URL admitted
\* later still waits in the queue
C30_Witness ==
    /\ last.op = "get_next_url"
    /\ last.ret
    /\ last.url \in in_progress
    /\ queue # <<>>
    /\ last.url \notin Range(queue)

(***************************************************************************)
(* Claims about the page tasks of a crawl                                  *)
(***************************************************************************)
\* the URLs of the page tasks of the current batch
BatchUrls == {turl[i] : i \in {j \in Slots : tpc[j] # "free"}}

\* C31: every URL the frontier hands out leaves in_progress again through
\* mark_complete, whether its scrape succeeds, fails or raises; when the
\* batch has been awaited in_progress holds none of its URLs.
C31_DequeuedUrlCompleted ==
    /\ \A u \in URLs : (u \in in_progress) ~> (u \in completed)
    /\ [](\A u \in completed : u \notin in_progress)
    /\ [][dpc = "gather" /\ dpc' = "loop" => BatchUrls \cap in_progress' = {}
       ]_vars
    /\ [](in_progress \subseteq BatchUrls)

\* a batch with a page that was stored and a page whose scrape failed has
\* been awaited and in_progress is empty
C31_Witness ==
    /\ dpc = "loop"
    /\ Cardinality(completed) >= 2
    /\ stats.failed_count > 0
    /\ stats.success_count > 0
    /\ in_progress = {}

(***************************************************************************)
(* Claims about the wait for a challenge                                   *)
(***************************************************************************)
\* the type detected in this poll differs from the one of the poll before
TypeChanged ==
    /\ wpc = "poll"
    /\ detection'.detected
    /\ last_detection # NoType
    /\ last_detection # detection'.type

\* C32: in one wait_for_challenge_completion call no protection type gets
\* more than 5 mitigation attempts, and the attempt counter restarts from
\* zero when the detected type changes between polls.
C32_FiveAttemptsPerType ==
    /\ [](\A t \in Types : attempts[t] <= MaxSolveAttempts)
    /\ [][TypeChanged => solve_attempts' = 0]_vars

\* C38: wait_for_challenge_completion returns success, and counts a bypass
\* success, only when a re-detection inspected the page and found no
\* protection; a poll whose detection errored is not reported as cleared.
C38_SuccessOnlyWhenInspected ==
    wret = "True" =>
        /\ detection.inspected
        /\ ~detection.detected

(***************************************************************************)
(* Claims about the crawler's mutex                                        *)
(***************************************************************************)
\* page task i takes a step out of the given positions of _process_page
TaskStepFrom(i, positions) == tpc[i] \in positions /\ tpc'[i] # tpc[i]

\* C33: while a URL is processed, the page is appended, success_count or
\* failed_count is updated and the frontier entry is completed under the
\* crawler's mutex: no such step is taken while another task holds it.
C33_MutationsUnderMutex ==
    [][\A i \in Slots :
          TaskStepFrom(i, {"store", "failed", "complete"})
          /\ (pages' # pages \/ stats' # stats \/ in_progress' # in_progress)
          => clock \in {Free, i}
      ]_vars

\* C34: the crawler's mutex is held only for the page append and the counter
\* increments: whoever holds it is at one of those, not at a scrape call
\* and not at a call of the frontier.
C34_MutexOnlyForAppend ==
    clock # Free =>
        /\ clock \in Slots
        /\ tpc[clock] \in {"store", "failed"}

(***************************************************************************)
(* Claims about the lifetime of a cache entry                              *)
(***************************************************************************)
\* the cache_ttl the caller of call p supplied, if any
SuppliedTtl(p) == get(req[p].options, "cache_ttl", Absent)

\* C35: the entry a scrape call writes expires after the cache_ttl seconds
\* its caller supplied, whatever non-negative integer that is, and after
\* the default of 86400 seconds only when the caller supplied none.
C35_EntryLivesCacheTtl ==
    [][\A p \in Scrapers :
          kpc[p] = "store" /\ kpc'[p] = "idle" /\ store' # store =>
             store'[KeyOf(req[p])].ex =
                IF SuppliedTtl(p) = Absent THEN CACHE_TTL
                ELSE int(SuppliedTtl(p))
      ]_vars

(***************************************************************************)
(* Claims about the order of the crawl                                     *)
(***************************************************************************)
\* the URLs that have left the queue
Dequeued == seen_urls \ Range(queue)

\* C36: the crawl is breadth-first whatever the number of workers: URLs
\* leave the queue in non-decreasing order of recorded depth, and the depth
\* recorded for a URL is the length of the shortest link path from the seed
\* through crawled pages, so at most one more than the depth of any crawled
\* page below max_depth that links to it.  The URLs of one batch are
\* dequeued in the order of their slots.
C36_BreadthFirst ==
    /\ \A u \in Range(queue) : \A v \in Dequeued :
          url_depths[v] <= url_depths[u]
    /\ \A i, j \in Slots :
          i < j /\ tpc[i] # "free" /\ tpc[j] # "free" => tdepth[i] <= tdepth[j]
    /\ \A k \in 1..Len(pages) : \A h \in Site(pages[k].url) :
          LET u == _normalize_url(h)
          IN  pages[k].depth < max_depth /\ u \in seen_urls =>
                 url_depths[u] <= pages[k].depth + 1

(***************************************************************************)
(* Claims about the URL filter                                             *)
(***************************************************************************)
\* C37: every URL scraped in a crawl, the seed included, passes the URL
\* filter of the crawl: it matches no exclude pattern, matches an include
\* pattern when there are any, and is allowed by robots.txt when the crawl
\* respects it.
C37_ScrapedPassFilter ==
    \A u \in URLs :
        scrape_count[u] > 0 =>
            /\ ~AnyMatch(exclude_patterns, u)
            /\ include_patterns # <<>> => AnyMatch(include_patterns, u)
            /\ _is_allowed_by_robots(u)

(***************************************************************************)
(* Claims about start_crawl                                                *)
(***************************************************************************)
\* the response registered in active_crawls
Registered == active_crawls[CrawlId]

\* C39: after start_crawl the response registered in active_crawls
\* eventually reaches a terminal status, and once the background crawl is
\* over it shows the status, pages and statistics of that crawl.
C39_RegisteredReflectsCrawl ==
    /\ (active_crawls # << >>) ~>
          (active_crawls # << >> /\ Registered.status \in {"completed", "failed"})
    /\ [](active_crawls # << >> /\ dpc = "done" =>
             /\ Registered.status = status
             /\ Registered.pages = pages
             /\ Registered.stats = stats)
====
